---- MODULE Spec2Model ----
(***************************************************************************)
(* A model of the request-handling core of pico (src/src/lib.rs,           *)
(* src/src/http/mod.rs): the route tree built by validate_pico_config, the *)
(* walk and the pipeline of PicoService::handle_http_pico_request, the     *)
(* header loop of handle_stream and the accept loop of start_http_server.  *)
(*                                                                         *)
(* Strings that are split on '/' (registered route paths, request paths,   *)
(* the route key pico_route_path) are represented by the result of         *)
(* split("/"): a non-empty sequence of slash-free segments, so that        *)
(* "/users/42" is <<"", "users", "42">>, "users/42" is <<"users", "42">>   *)
(* and the empty string is <<"">>.  Two such strings are equal exactly     *)
(* when their sequences are equal.                                         *)
(***************************************************************************)
EXTENDS Integers, Sequences, FiniteSets, TLC

VARIABLES
    routes,          \* PicoService.routes: registered path -> method -> handler
    route_tree,      \* PicoService.route_tree: node (sequence of child keys) -> parameter_name
    pending,         \* routes the tree-building loop has not visited yet
    files,           \* the files under public/ (each a sequence of path components)
    pc,              \* position of the server's single thread
    request,         \* the PicoRequest being handled
    resolved,        \* outcome of the tree walk and the route-table lookup
    stream,          \* what the client of the accepted connection sends
    buf_len,         \* handle_stream: buf.len()
    body_len,        \* parse_to_pico_request: body_bytes.len()
    reader,          \* handle_stream: where it stands, or its result
    short_reads,     \* history: reads that returned fewer bytes than were available
    handler,         \* the RouteHandler selected for the request
    jwt_claims,      \* the session claims in flight
    function_input,  \* the input map of the server function
    json_body,       \* the working response payload
    headers,         \* the response headers collected so far
    response,        \* the response handed to the accept loop
    steps,           \* history: the calls made while handling the request
    client,          \* the peer of the accepted connection
    wire             \* the bytes written to the accepted connection

routeVars == <<routes, route_tree, pending, files>>
readerVars == <<stream, buf_len, body_len, reader, short_reads>>
pipeVars == <<handler, jwt_claims, function_input, json_body, headers, response, steps, client,
              wire>>
handlingVars == <<handler, jwt_claims, function_input, json_body, headers, response, steps>>
vars == <<routes, route_tree, pending, files, pc, request, resolved,
          stream, buf_len, body_len, reader, short_reads,
          handler, jwt_claims, function_input, json_body, headers, response, steps, client,
          wire>>

----------------------------------------------------------------------------
(* Bounds of the model *)

\* longest request path, counted in pieces of split("/")
MaxRawLen == 4
\* most routes in a route table
MaxRoutes == 3
\* most reads of one connection that return fewer bytes than have arrived
MaxShortReads == 2

----------------------------------------------------------------------------
(* Strings *)

EmptyStr == <<"">>

\* the segments of registered paths that start with ':'
ParamSegs == {":id", ":name"}

StartsWithColon(seg) == seg \in ParamSegs

\* `for seg in path.split("/") { if seg == "" { continue; } ... }`
NonEmptySegs(path) == SelectSeq(path, LAMBDA seg : seg # "")

\* HashMap::insert
MapInsert(m, k, v) == [x \in (DOMAIN m) \cup {k} |-> IF x = k THEN v ELSE m[x]]

EmptyMap == <<>>

----------------------------------------------------------------------------
(* The route tree: validate_pico_config *)

\* RouteTree { nodes: HashMap::new(), parameter_name: "" }
EmptyTree == (<<>> :> "")

ChildKey(seg) == IF StartsWithColon(seg) THEN "*" ELSE seg

\* current.nodes.entry(key).or_insert(RouteTree { parameter_name: seg })
RECURSIVE InsertSegs(_, _, _)
InsertSegs(tree, current, segs) ==
    IF segs = <<>> THEN tree
    ELSE LET seg == Head(segs) IN
         IF seg = "" THEN InsertSegs(tree, current, Tail(segs))
         ELSE LET child == Append(current, ChildKey(seg))
                  grown == IF child \in DOMAIN tree THEN tree
                           ELSE [n \in (DOMAIN tree) \cup {child} |->
                                    IF n = child THEN seg ELSE tree[n]]
              IN  InsertSegs(grown, child, Tail(segs))

InsertRoute(tree, route) == InsertSegs(tree, <<>>, route)

\* the tree built by visiting the routes in the given order
RECURSIVE BuildTree(_)
BuildTree(order) ==
    IF order = <<>> THEN EmptyTree
    ELSE InsertRoute(BuildTree(SubSeq(order, 1, Len(order) - 1)), order[Len(order)])

----------------------------------------------------------------------------
(* The static files: try_serve_static_file *)

EndsWithSlash(path) == Len(path) >= 2 /\ path[Len(path)] = ""

ContainsDotDot(path) == \E i \in 1..Len(path) : path[i] = ".."

\* "public" + decoded_path (+ "index.html" for a directory request); the file
\* system ignores empty path components
StaticFilePath(request_path) ==
    NonEmptySegs(request_path)
        \o (IF EndsWithSlash(request_path) THEN <<"index.html">> ELSE <<>>)

\* a lookup that answers for a directory with the file of the same name
try_serve_static_file_no_index(fs, request_path) ==
    IF NonEmptySegs(request_path) \in fs
    THEN [ok |-> TRUE, file |-> NonEmptySegs(request_path)]
    ELSE [ok |-> FALSE, file |-> <<>>]

\* Ok(bytes of the file) or Err(NotFound)
try_serve_static_file(fs, request_path) ==
    IF ContainsDotDot(request_path) THEN [ok |-> FALSE, file |-> <<>>]
    ELSE IF StaticFilePath(request_path) \in fs
         THEN [ok |-> TRUE, file |-> StaticFilePath(request_path)]
         ELSE [ok |-> FALSE, file |-> <<>>]

----------------------------------------------------------------------------
(* The walk: handle_http_pico_request, lines 491-546 *)

\* pico_route_path: push '/' unless empty, then the parameter name
PushSegment(pico_route_path, name) ==
    IF pico_route_path = EmptyStr THEN <<name>> ELSE Append(pico_route_path, name)

Outcome(kind, key, params, trace, tries, file) ==
    [kind |-> kind, key |-> key, params |-> params, trace |-> trace,
     static_tries |-> tries, file |-> file]

\* one entry of the walk's trace: the node the walk stood at, the segment, the
\* child it descended into and whether it recorded a binding
Step(node, seg, child, bound) ==
    [node |-> node, seg |-> seg, child |-> child, bound |-> bound]

\* tree.nodes.get(seg) with a wildcard child shadowing its literal siblings
HasChildWildcardFirst(tree, node, key) ==
    IF key # "*" /\ Append(node, "*") \in DOMAIN tree THEN FALSE
    ELSE Append(node, key) \in DOMAIN tree

\* tree.nodes.get(seg)
HasChild(tree, node, key) == Append(node, key) \in DOMAIN tree

\* no segment is skipped
SkipSegmentNever(seg) == FALSE

\* `if seg == "" { continue; }`
SkipSegment(seg) == seg = ""

RECURSIVE WalkTree(_, _, _, _, _, _, _, _, _)
WalkTree(tree, fs, path, segs, node, key, params, trace, tries) ==
    IF segs = <<>> THEN Outcome("walked", key, params, trace, tries, <<>>)
    ELSE LET seg == Head(segs) IN
         IF SkipSegment(seg) THEN
             WalkTree(tree, fs, path, Tail(segs), node, key, params, trace, tries)
         ELSE IF HasChild(tree, node, seg) THEN
             LET sub == Append(node, seg) IN
             WalkTree(tree, fs, path, Tail(segs), sub,
                      PushSegment(key, tree[sub]), params,
                      Append(trace, Step(node, seg, sub, FALSE)), tries)
         ELSE IF try_serve_static_file(fs, path).ok THEN
             Outcome("static", key, params, trace, tries + 1,
                     try_serve_static_file(fs, path).file)
         ELSE IF HasChild(tree, node, "*") THEN
             LET sub == Append(node, "*") IN
             WalkTree(tree, fs, path, Tail(segs), sub,
                      PushSegment(key, tree[sub]),
                      MapInsert(params, tree[sub], seg),
                      Append(trace, Step(node, seg, sub, TRUE)), tries + 1)
         ELSE Outcome("no_child", key, params, trace, tries + 1, <<>>)

\* the walk followed by self.routes.get(&pico_route_path); the outcome is
\*   "route"     the key is in the route table
\*   "static"    a static file was served at a segment with no literal child
\*   "no_child"  a segment has neither a literal nor a wildcard child (404)
\*   "no_route"  the walk ended at a key that is not in the route table (404)
ResolveRoute(tree, table, fs, path) ==
    LET w == WalkTree(tree, fs, path, path, <<>>, EmptyStr, EmptyMap, <<>>, 0) IN
    IF w.kind # "walked" THEN w
    ELSE IF w.key \in DOMAIN table THEN [w EXCEPT !.kind = "route"]
         ELSE [w EXCEPT !.kind = "no_route"]

----------------------------------------------------------------------------
(* Inputs of the route model *)

\* the pieces a request path is made of ("" between two slashes)
SegAlphabet == {"", "users", "me", "42", "*"}

RECURSIVE SeqsUpTo(_, _)
SeqsUpTo(S, n) ==
    IF n = 0 THEN {<<>>}
    ELSE LET shorter == SeqsUpTo(S, n - 1) IN
         shorter \cup {Append(q, x) : q \in {r \in shorter : Len(r) = n - 1}, x \in S}

RawPaths == SeqsUpTo(SegAlphabet, MaxRawLen) \ {<<>>}

\* registered paths: "users", "/users", "users/me", "users/:id", "users/:name/me"
RoutePathUniverse ==
    {<<"users">>, <<"", "users">>, <<"users", "me">>, <<"users", ":id">>,
     <<"users", ":name", "me">>}

Methods == {"GET", "POST"}

NoHandler == [view |-> FALSE, sql_function_name |-> "none", pre_process |-> FALSE,
              post_process |-> FALSE, set_jwt |-> FALSE]

\* route tables of the route model: every route has a GET handler
RouteTables ==
    {[r \in paths |-> [m \in {"GET"} |-> NoHandler]] :
        paths \in {P \in SUBSET RoutePathUniverse : P # {} /\ Cardinality(P) <= MaxRoutes}}

\* contents of public/: nothing; public/users/42 and public/users/me;
\* public/index.html and public/users/index.html
FileSystems ==
    {{}, {<<"users", "42">>, <<"users", "me">>},
     {<<"index.html">>, <<"users", "index.html">>}}

NoRequest == [method |-> "GET", path |-> EmptyStr]

NoOutcome == Outcome("none", EmptyStr, EmptyMap, <<>>, 0, <<>>)

NoStream == [term |-> 0, total |-> 0, closes |-> TRUE, request_line |-> TRUE,
             content_length |-> 0]

NoBody == [kind |-> "none", of |-> <<>>]

NoResponse == [status |-> "none", message |-> <<>>, headers |-> EmptyMap, body |-> NoBody]

\* no connection is being read
IdleReader ==
    /\ stream = NoStream
    /\ buf_len = 0
    /\ body_len = 0
    /\ reader = "idle"
    /\ short_reads = 0

\* no request is in the pipeline
IdlePipeline ==
    /\ handler = NoHandler
    /\ jwt_claims = "None"
    /\ function_input = EmptyMap
    /\ json_body = "null"
    /\ headers = EmptyMap
    /\ response = NoResponse
    /\ steps = <<>>
    /\ client = "none"
    /\ wire = <<>>

----------------------------------------------------------------------------
(* Startup: the tree-building loop of validate_pico_config.  The loop runs
   over a HashMap, whose iteration order is arbitrary. *)

InsertNextRoute ==
    /\ pc = "build"
    /\ \E route \in pending :
          /\ route_tree' = InsertRoute(route_tree, route)
          /\ pending' = pending \ {route}
    /\ UNCHANGED <<routes, files, pc, request, resolved, readerVars, pipeVars>>

\* start_http_server: the listener is bound and the accept loop starts
StartServer ==
    /\ pc = "build"
    /\ pending = {}
    /\ pc' = "accept"
    /\ UNCHANGED <<routeVars, request, resolved, readerVars, pipeVars>>

----------------------------------------------------------------------------
(* The route model: resolution of arbitrary request paths *)

InitRoute ==
    /\ routes \in RouteTables
    /\ route_tree = EmptyTree
    /\ pending = DOMAIN routes
    /\ files \in FileSystems
    /\ pc = "build"
    /\ request = NoRequest
    /\ resolved = NoOutcome
    /\ IdleReader
    /\ IdlePipeline

ResolvePath ==
    /\ pc = "accept"
    /\ \E path \in RawPaths :
          /\ request' = [method |-> "GET", path |-> path]
          /\ resolved' = ResolveRoute(route_tree, routes, files, path)
    /\ pc' = "resolved"
    /\ UNCHANGED <<routeVars, readerVars, pipeVars>>

ResolveDone ==
    /\ pc = "resolved"
    /\ pc' = "accept"
    /\ request' = NoRequest
    /\ resolved' = NoOutcome
    /\ UNCHANGED <<routeVars, readerVars, pipeVars>>

NextRoute == InsertNextRoute \/ StartServer \/ ResolvePath \/ ResolveDone

SpecRoute == InitRoute /\ [][NextRoute]_vars

----------------------------------------------------------------------------
(* The wire reader: handle_stream and parse_to_pico_request.  Only the
   lengths matter to the framing: a connection is the offset at which its
   first "\r\n\r\n" ends (0 when the client never sends one), the number of
   bytes the client sends in all, whether it then closes the connection or
   keeps it open, whether its request line has its three parts, and the
   content-length it declares. *)

MAX_HEADER_SIZE == 1024
\* let mut temp = [0u8; 1024]
TEMP_SIZE == 1024

Min(a, b) == IF a < b THEN a ELSE b

TermOffsets ==
    {4, 40, MAX_HEADER_SIZE, MAX_HEADER_SIZE + 1, MAX_HEADER_SIZE + 200,
     2 * MAX_HEADER_SIZE}

BodySizes == {0, 5, 10}

Streams ==
    {[term |-> t, total |-> t + extra, closes |-> c, request_line |-> rl,
      content_length |-> cl] :
        t \in TermOffsets, extra \in BodySizes, c \in BOOLEAN, rl \in BOOLEAN,
        cl \in BodySizes}
    \cup
    {[term |-> 0, total |-> n, closes |-> c, request_line |-> TRUE,
      content_length |-> 0] :
        n \in {0, 10, MAX_HEADER_SIZE, MAX_HEADER_SIZE + 1, MAX_HEADER_SIZE + 500},
        c \in BOOLEAN}

\* sizes of a read that returns less than has arrived
ShortSizes == {1, 2, 12, 512, 1000, TEMP_SIZE - 1}

\* buf.windows(4).any(|w| w == b"\r\n\r\n")
HasTerminator(st, len) == st.term # 0 /\ st.term <= len

\* lines 169-176: what the loop does with the bytes read so far
HeaderCheck(st, len) ==
    IF HasTerminator(st, len) THEN "break"
    ELSE IF len > MAX_HEADER_SIZE THEN "HeaderFieldsTooLarge"
    ELSE "continue"

\* lines 179-194 and 229-248: the request line, the declared length and the
\* bytes captured past the terminator decide what follows the header loop
AfterHeaders(st, len) ==
    IF ~st.request_line THEN "BadRequest"
    ELSE IF len - st.term > st.content_length THEN "body"
    ELSE "Ok"

\* one pass of the header loop: stream.read(&mut temp) and the checks
ReadHeaders ==
    /\ pc = "read"
    /\ reader = "headers"
    /\ LET available == stream.total - buf_len IN
       \/ /\ available = 0
          /\ stream.closes
          /\ reader' = "BadRequest"
          /\ UNCHANGED <<buf_len, body_len, short_reads>>
       \/ /\ available > 0
          /\ \E n \in ShortSizes \cup {Min(TEMP_SIZE, available)} :
                /\ n <= Min(TEMP_SIZE, available)
                /\ n < Min(TEMP_SIZE, available) => short_reads < MaxShortReads
                /\ short_reads' =
                      IF n < Min(TEMP_SIZE, available) THEN short_reads + 1 ELSE short_reads
                /\ buf_len' = buf_len + n
                /\ LET check == HeaderCheck(stream, buf_len + n) IN
                   /\ reader' = CASE check = "continue" -> "headers"
                                  [] check = "break" -> AfterHeaders(stream, buf_len + n)
                                  [] OTHER -> check
                   /\ body_len' = IF check = "break" THEN buf_len + n - stream.term ELSE 0
    /\ UNCHANGED <<routeVars, pc, request, resolved, stream, pipeVars>>

\* lines 248-267: one read of at most content_length bytes, with a timeout
ReadBody ==
    /\ pc = "read"
    /\ reader = "body"
    /\ LET available == stream.total - buf_len
           room == Min(stream.content_length, available)
       IN
       \/ /\ room = 0
          /\ stream.content_length = 0 \/ stream.closes
          /\ reader' = "Ok"
          /\ UNCHANGED <<body_len, short_reads>>
       \/ /\ room = 0
          /\ stream.content_length > 0
          /\ ~stream.closes
          /\ reader' = "BadRequest"
          /\ UNCHANGED <<body_len, short_reads>>
       \/ /\ room > 0
          /\ \E rb \in ShortSizes \cup {room} :
                /\ rb <= room
                /\ rb < room => short_reads < MaxShortReads
                /\ short_reads' = IF rb < room THEN short_reads + 1 ELSE short_reads
                /\ body_len' = body_len + rb
                /\ reader' = "Ok"
    /\ UNCHANGED <<routeVars, pc, request, resolved, stream, buf_len, pipeVars>>

\* handle_stream hands its result to the accept loop; its buffers are dropped
ReaderReturns ==
    /\ pc = "read"
    /\ reader \in {"Ok", "BadRequest", "HeaderFieldsTooLarge"}
    /\ pc' = "accept"
    /\ stream' = NoStream
    /\ reader' = "idle"
    /\ buf_len' = 0
    /\ body_len' = 0
    /\ short_reads' = 0
    /\ client' = "none"
    /\ UNCHANGED <<routeVars, request, resolved, handlingVars, wire>>

\* the reader model: connections of every shape, one after the other
InitReader ==
    /\ routes = [r \in {<<"users">>} |-> [m \in {"GET"} |-> NoHandler]]
    /\ route_tree = BuildTree(<<<<"users">>>>)
    /\ pending = {}
    /\ files = {}
    /\ pc = "accept"
    /\ request = NoRequest
    /\ resolved = NoOutcome
    /\ IdleReader
    /\ IdlePipeline

\* a listener that takes the next connection while the answer to the last one
\* is still to be written
AcceptStreamEarly ==
    /\ pc \in {"accept", "write"}
    /\ pc' = "read"
    /\ stream' \in Streams
    /\ reader' = "headers"
    /\ buf_len' = 0
    /\ body_len' = 0
    /\ short_reads' = 0
    /\ client' = "open"
    /\ wire' = <<>>
    /\ UNCHANGED <<routeVars, request, resolved, handlingVars>>

\* listener.incoming() yields a connection and handle_stream starts
AcceptStream ==
    /\ pc = "accept"
    /\ pc' = "read"
    /\ stream' \in Streams
    /\ reader' = "headers"
    /\ buf_len' = 0
    /\ body_len' = 0
    /\ short_reads' = 0
    /\ client' = "open"
    /\ wire' = <<>>
    /\ UNCHANGED <<routeVars, request, resolved, handlingVars>>

NextReader == AcceptStream \/ ReadHeaders \/ ReadBody \/ ReaderReturns

SpecReader == InitReader /\ [][NextReader]_vars

\* C10: once more than MAX_HEADER_SIZE bytes have been read and the header
\* terminator does not end within the first MAX_HEADER_SIZE bytes, the reader
\* fails with HeaderFieldsTooLarge, however the bytes were split over reads.
C10_OversizedHeadersRejected ==
    /\ reader \in {"Ok", "BadRequest", "HeaderFieldsTooLarge", "body"}
    /\ buf_len > MAX_HEADER_SIZE
    /\ stream.term = 0 \/ stream.term > MAX_HEADER_SIZE
    => reader = "HeaderFieldsTooLarge"

\* C11: a request the reader returns has a body of exactly as many bytes as
\* its content-length declares, whatever part of the body came with the headers.
C11_BodyHasDeclaredLength ==
    reader = "Ok" => body_len = stream.content_length

----------------------------------------------------------------------------
(* Script hooks.  The text of an error is the sequence of its pieces, so that
   "contains", "starts with" and "split" are computed on it. *)

Contains(msg, piece) == \E i \in 1..Len(msg) : msg[i] = piece

LuaError(variant, msg) == [variant |-> variant, msg |-> msg]

NoError == LuaError("none", <<>>)

\* error("error: denied", 0)
UserError == LuaError("RuntimeError", <<"error: ", "denied">>)

\* error("error: denied"): the position in front, the trace back behind
UserErrorLocated ==
    LuaError("RuntimeError",
             <<"hook.lua:3: ", "error: ", "denied", "\n", "stack traceback:", "frames">>)

\* error("error: attempt to call denied", 0)
UserErrorArity == LuaError("RuntimeError", <<"error: ", "attempt to call", "denied">>)

\* the hook body calls a nil value
SystemErrorArity ==
    LuaError("RuntimeError", <<"hook.lua:3: ", "attempt to call", "a nil value">>)

\* a fault that is not a runtime error
SystemError == LuaError("MemoryError", <<"not enough memory">>)

LuaErrors == {UserError, UserErrorLocated, UserErrorArity, SystemErrorArity, SystemError}

\* e.to_string()
Display(e) ==
    IF e.variant = "RuntimeError" THEN <<"runtime error: ">> \o e.msg
    ELSE <<"memory error: ">> \o e.msg

\* error_msg.contains("wrong number of arguments") || error_msg.contains("attempt to call")
IsArityShaped(e) ==
    \/ Contains(Display(e), "wrong number of arguments")
    \/ Contains(Display(e), "attempt to call")

\* a classification that takes every error for a user-level error
is_user_lua_error_any(e) == e.variant # "none"

is_user_lua_error(e) == e.variant = "RuntimeError" /\ Contains(e.msg, "error: ")

\* msg.split("stack traceback:").next()
BeforeTraceback(msg) ==
    LET at == {i \in 1..Len(msg) : msg[i] = "stack traceback:"} IN
    IF at = {} THEN msg
    ELSE SubSeq(msg, 1, (CHOOSE i \in at : \A j \in at : i <= j) - 1)

Whitespace == {"\n", " "}

\* str::trim
RECURSIVE Trim(_)
Trim(msg) ==
    IF msg # <<>> /\ Head(msg) \in Whitespace THEN Trim(Tail(msg))
    ELSE IF msg # <<>> /\ msg[Len(msg)] \in Whitespace
         THEN Trim(SubSeq(msg, 1, Len(msg) - 1))
         ELSE msg

extract_lua_error_message(e) ==
    IF e.variant = "RuntimeError"
    THEN LET cleaned == Trim(BeforeTraceback(e.msg)) IN
         IF cleaned # <<>> /\ Head(cleaned) = "error: " THEN Trim(Tail(cleaned))
         ELSE cleaned
    ELSE Display(e)

\* the result of one call of a hook
HookOk(value) == [ok |-> TRUE, value |-> value, err |-> NoError]
HookErr(value, e) == [ok |-> FALSE, value |-> value, err |-> e]

\* the call with (data, jwt) and, after an arity-shaped failure, with (data)
call_lua_function_with_optional_jwt(first, second) ==
    IF first.ok THEN first
    ELSE IF IsArityShaped(first.err) THEN second
    ELSE first

\* an entry of the history: the operation, the number of arguments of a hook
\* call, the error it raised and the claims it was called with
HookStep(op, args, raised, jwt) == [op |-> op, args |-> args, raised |-> raised, jwt |-> jwt]

\* an entry for a step that is given no claims
LogStep(op, args, raised) == HookStep(op, args, raised, "not passed")

\* calls that hand the hook no claims whatever the request carries
HookCallsWithoutClaims(op, first, second, jwt) ==
    IF first.ok \/ ~IsArityShaped(first.err) THEN <<HookStep(op, 2, first.err, "None")>>
    ELSE <<HookStep(op, 2, first.err, "None"), LogStep(op, 1, second.err)>>

\* the calls made by call_lua_function_with_optional_jwt: (data, jwt), then (data)
HookCalls(op, first, second, jwt) ==
    IF first.ok \/ ~IsArityShaped(first.err) THEN <<HookStep(op, 2, first.err, jwt)>>
    ELSE <<HookStep(op, 2, first.err, jwt), LogStep(op, 1, second.err)>>

\* what a pre-process hook returns: the input as it is, an object with a new
\* key, a value that is not an object
NotAnObject == [object |-> FALSE, fields |-> EmptyMap]

PreOutcomes ==
    {HookOk([object |-> TRUE, fields |-> EmptyMap]),
     HookOk([object |-> TRUE, fields |-> ("name" :> "lua")]),
     HookOk(NotAnObject)}
    \cup {HookErr(NotAnObject, e) : e \in LuaErrors}

\* what a set_jwt hook returns: claims, or a value that has no JSON form
SetJwtOutcomes ==
    {HookOk("new_claims"), HookOk("expired_claims"), HookOk("unconvertible")}
    \cup {HookErr("nil", e) : e \in LuaErrors}

\* what a post-process hook returns: a new payload, or a value without JSON form
PostOutcomes ==
    {HookOk("transformed"), HookOk("unconvertible")}
    \cup {HookErr("nil", e) : e \in LuaErrors}

----------------------------------------------------------------------------
(* Responses: PicoResponse and ResponseCode *)

\* ResponseCode::to_str
to_str(rc) ==
    CASE rc = "Ok" -> "OK"
      [] rc = "NotFound" -> "Not Found"
      [] rc = "InternalError" -> "Internal Server Error"
      [] rc = "BadRequest" -> "Bad Request"
      [] rc = "Unauthorized" -> "Unauthorized"
      [] rc = "HeaderFieldsTooLarge" -> "Header Fields Too Large"

\* ResponseCode::to_code
to_code(rc) ==
    CASE rc = "Ok" -> 200
      [] rc = "NotFound" -> 404
      [] rc = "InternalError" -> 500
      [] rc = "BadRequest" -> 400
      [] rc = "Unauthorized" -> 401
      [] rc = "HeaderFieldsTooLarge" -> 431

\* an error response that keeps the status of a success
PicoErrorStatusOk(status, message) ==
    [status |-> "Ok", message |-> message,
     headers |-> ("Content-Type" :> "application/json"),
     body |-> [kind |-> "error", of |-> message]]

\* an error response that takes over the headers collected for the request
PicoErrorKeepsHeaders(status, message) ==
    [status |-> status, message |-> message,
     headers |-> ("Content-Type" :> "application/json") @@ headers,
     body |-> [kind |-> "error", of |-> message]]

\* PicoResponse::error
PicoError(status, message) ==
    [status |-> status, message |-> message,
     headers |-> ("Content-Type" :> "application/json"),
     body |-> [kind |-> "error", of |-> message]]

\* PicoResponse::success
PicoSuccess(body) ==
    [status |-> "Ok", message |-> <<>>, headers |-> EmptyMap, body |-> body]

\* rc.to_bytes(): a status line and an empty line
StatusOnly(rc) == [status |-> rc, message |-> <<>>, headers |-> EmptyMap, body |-> NoBody]

\* "HTTP/1.1 {code} {reason}\r\n"
StatusLine(rc) == <<"HTTP/1.1 ", ToString(to_code(rc)), " ", to_str(rc), "\r\n">>

\* the headers a response can carry, in the order they are written here (the
\* HashMap yields them in an order of its own)
HeaderOrder == <<"Content-Type", "Content-Length", "Set-Cookie">>

\* "{key}: {value}\r\n" for each header
RECURSIVE HeaderLines(_, _)
HeaderLines(h, keys) ==
    IF keys = <<>> THEN <<>>
    ELSE IF Head(keys) \notin DOMAIN h THEN HeaderLines(h, Tail(keys))
    ELSE <<Head(keys), ": ">>
            \o (IF Head(keys) = "Set-Cookie" THEN h[Head(keys)] ELSE <<h[Head(keys)]>>)
            \o <<"\r\n">> \o HeaderLines(h, Tail(keys))

\* what try_serve_static_file returns for a file it found: a status line,
\* the content headers, an empty line and the contents of the file
StaticResponse(file) ==
    StatusLine("Ok")
       \o <<"Content-Type", ": ", "mime_type", "\r\n",
            "Content-Length", ": ", "file_contents.len()", "\r\n", "\r\n">>
       \o <<"file_contents">>

\* PicoResponse.body
BodyBytes(body) ==
    CASE body.kind = "static" -> StaticResponse(body.of)
      [] body.kind = "error" -> <<"error_json">> \o body.of
      [] body.kind = "html" -> <<"view.to_html">> \o body.of
      [] OTHER -> body.of

\* PicoResponse::to_http_bytes
to_http_bytes(r) ==
    StatusLine(r.status) \o HeaderLines(r.headers, HeaderOrder) \o <<"\r\n">>
       \o BodyBytes(r.body)

----------------------------------------------------------------------------
(* The server functions: sql.functions *)

\* get_user(id, name) and ping()
Functions == ("get_user" :> <<"id", "name">>) @@ ("ping" :> <<>>)

\* JSON arrays and objects, which execute cannot bind
UnsupportedValues == {"[1]"}

\* what the database answers: no row, one row, several rows, an error
DbResults == {"null", "row", "rows", "error"}

\* a validation that looks at the first declared parameter only
MissingParameterFirstOnly(parameters, input) ==
    IF parameters # <<>> /\ parameters[1] \notin DOMAIN input THEN <<parameters[1]>>
    ELSE <<>>

\* `for param in &function.parameters { if !function_input.contains_key(param)`:
\* the first declared parameter that the input lacks
MissingParameter(parameters, input) ==
    LET absent == {i \in 1..Len(parameters) : parameters[i] \notin DOMAIN input} IN
    IF absent = {} THEN <<>>
    ELSE <<parameters[CHOOSE i \in absent : \A j \in absent : i <= j]>>

\* Function::execute
execute(parameters, input, db) ==
    IF \E i \in 1..Len(parameters) : parameters[i] \notin DOMAIN input
    THEN [kind |-> "Err", value |-> "BadRequest"]
    ELSE IF \E i \in 1..Len(parameters) : input[parameters[i]] \in UnsupportedValues
    THEN [kind |-> "panic", value |-> "null"]
    ELSE IF db = "error" THEN [kind |-> "Err", value |-> "InternalError"]
    ELSE [kind |-> "Ok", value |-> db]

\* an overlay in which the earlier map's entries win
OverlayKeepsBase(base, over) ==
    [k \in (DOMAIN base) \cup (DOMAIN over) |-> IF k \in DOMAIN base THEN base[k] ELSE over[k]]

\* an overlay that replaces the map by the entries laid over it
OverlayReplaces(base, over) == over

\* the later map's entries replace the earlier map's
Overlay(base, over) ==
    [k \in (DOMAIN base) \cup (DOMAIN over) |-> IF k \in DOMAIN over THEN over[k] ELSE base[k]]

\* PICO_SECRET_KEY of this server, and the key of another server
secret_key == "default_secret"
OtherSecret == "other_secret"

\* claims objects whose "exp" lies in the past
ExpiredClaims == {"expired_claims"}

\* jsonwebtoken::encode: a token is the text of its pieces, the claims and the
\* signature, which stands for the key it was made with
encode(claims, key) == <<claims, key>>

\* a decoding that does not look at the signature
decode_unverified(token, key) ==
    IF Len(token) = 2 /\ token[1] \notin ExpiredClaims THEN <<token[1]>> ELSE <<>>

\* jsonwebtoken::decode with Validation::new(HS256), "exp" not required but
\* validated when present: <<claims>> for Ok, <<>> for Err
decode(token, key) ==
    IF Len(token) = 2 /\ token[2] = key /\ token[1] \notin ExpiredClaims
    THEN <<token[1]>>
    ELSE <<>>

\* one cookie of the request's cookie headers
Cookie(name, token) == [name |-> name, token |-> token]

\* a scan that stops at the first pico_jwt cookie, whether it verifies or not
extract_jwt_claims_first_cookie(cookies, key) ==
    LET jwt == {i \in 1..Len(cookies) : cookies[i].name = "pico_jwt"} IN
    IF jwt = {} THEN "None"
    ELSE LET first == CHOOSE i \in jwt : \A j \in jwt : i <= j IN
         IF decode(cookies[first].token, key) # <<>>
         THEN decode(cookies[first].token, key)[1]
         ELSE "None"

\* extract_jwt_claims: the claims of the first pico_jwt cookie that verifies
extract_jwt_claims(cookies, key) ==
    LET verified == {i \in 1..Len(cookies) :
                        /\ cookies[i].name = "pico_jwt"
                        /\ decode(cookies[i].token, key) # <<>>}
    IN  IF verified = {} THEN "None"
        ELSE decode(cookies[CHOOSE i \in verified : \A j \in verified : i <= j].token,
                    key)[1]

\* a session cookie without its flags
SetCookieValueBare(jwt) == <<"pico_jwt=">> \o jwt

\* format!("pico_jwt={}; HttpOnly; Path=/;", jwt)
SetCookieValue(jwt) == <<"pico_jwt=">> \o jwt \o <<"; HttpOnly; Path=/;">>

\* a JSON value handed to Lua and converted back: Null goes as an empty table
LuaRoundTrip(value) == IF value = "null" THEN "empty_table" ELSE value

----------------------------------------------------------------------------
(* Inputs of the service model *)

HFull == [view |-> TRUE, sql_function_name |-> "get_user", pre_process |-> TRUE,
          post_process |-> TRUE, set_jwt |-> TRUE]

HPre == [view |-> FALSE, sql_function_name |-> "get_user", pre_process |-> TRUE,
         post_process |-> FALSE, set_jwt |-> FALSE]

HPing == [view |-> TRUE, sql_function_name |-> "ping", pre_process |-> FALSE,
          post_process |-> FALSE, set_jwt |-> FALSE]

HHooksOnly == [view |-> FALSE, sql_function_name |-> "none", pre_process |-> TRUE,
               post_process |-> TRUE, set_jwt |-> TRUE]

HandlerUniverse == {HFull, HPre, HPing, HHooksOnly, NoHandler}

\* one route, "users/:id", with a GET handler
ServiceTables == {(<<"users", ":id">> :> ("GET" :> h)) : h \in HandlerUniverse}

\* public/style.css
ServiceFiles == {<<"style.css">>}

\* "/users/42", "/users", "/nope", "/style.css"
RequestPaths == {<<"", "users", "42">>, <<"", "users">>, <<"", "nope">>, <<"", "style.css">>}

JsonBody(fields) == [kind |-> "Json", fields |-> fields]

Bodies ==
    {JsonBody(EmptyMap), JsonBody("id" :> "7"), JsonBody(("id" :> "7") @@ ("name" :> "bo")),
     JsonBody(("id" :> "7") @@ ("name" :> "[1]")),
     JsonBody((":id" :> "9") @@ ("name" :> "bo")),
     [kind |-> "Form", fields |-> ("id" :> "7") @@ ("name" :> "bo")],
     [kind |-> "Raw", fields |-> EmptyMap]}

\* the tokens of the request's pico_jwt cookies, in order of appearance
CookieLists ==
    {<<>>,
     <<Cookie("theme", <<"dark">>), Cookie("pico_jwt", encode("cookie_claims", OtherSecret)),
       Cookie("pico_jwt", encode("cookie_claims", secret_key))>>,
     <<Cookie("pico_jwt", encode("cookie_claims", secret_key)),
       Cookie("pico_jwt", encode("other_claims", secret_key))>>,
     <<Cookie("theme", <<"dark">>), Cookie("pico_jwt", encode("expired_claims", secret_key))>>}

AcceptValues == {"none", "text/html", "text/plain"}

Requests ==
    {[method |-> m, path |-> p, body |-> b, cookies |-> c, accept |-> a, hx |-> h] :
        m \in Methods, p \in RequestPaths, b \in Bodies, c \in CookieLists,
        a \in AcceptValues, h \in BOOLEAN}

----------------------------------------------------------------------------
(* The service model: start_http_server and handle_http_pico_request *)

Init ==
    /\ routes \in ServiceTables
    /\ route_tree = EmptyTree
    /\ pending = DOMAIN routes
    /\ files = ServiceFiles
    /\ pc = "build"
    /\ request = NoRequest
    /\ resolved = NoOutcome
    /\ IdleReader
    /\ IdlePipeline

\* handle_stream returns Ok: parse_to_pico_request has classified the body and
\* split the target; the buffers of the reader are dropped
ParseRequest ==
    /\ pc = "read"
    /\ reader = "Ok"
    /\ \E req \in Requests :
          /\ body_len = 0 => req.body.fields = EmptyMap
          /\ request' = req
    /\ pc' = "resolve"
    /\ stream' = NoStream
    /\ buf_len' = 0
    /\ body_len' = 0
    /\ short_reads' = 0
    /\ UNCHANGED <<routeVars, resolved, reader, pipeVars>>

\* handle_stream returns Err(rc): the accept loop answers with rc.to_bytes()
RejectStream ==
    /\ pc = "read"
    /\ reader \in {"BadRequest", "HeaderFieldsTooLarge"}
    /\ response' = StatusOnly(reader)
    /\ pc' = "write"
    /\ stream' = NoStream
    /\ buf_len' = 0
    /\ body_len' = 0
    /\ short_reads' = 0
    /\ UNCHANGED <<routeVars, request, resolved, reader, handler, jwt_claims,
                   function_input, json_body, headers, steps, client, wire>>

\* a walk that creates the nodes it does not find (entry().or_insert in place
\* of get)
ResolveInsertsPath ==
    /\ pc = "resolve"
    /\ LET out == ResolveRoute(route_tree, routes, files, request.path) IN
       /\ resolved' = out
       /\ IF out.kind = "route"
          THEN /\ pc' = "select"
               /\ UNCHANGED response
          ELSE /\ pc' = "write"
               /\ response' =
                     IF out.kind = "static"
                     THEN PicoSuccess([kind |-> "static", of |-> out.file])
                     ELSE PicoError("NotFound", <<"Route not found">>)
    /\ route_tree' = InsertRoute(route_tree, request.path)
    /\ steps' = Append(steps, LogStep("resolve", 0, NoError))
    /\ UNCHANGED <<routes, pending, files, request, readerVars, handler, jwt_claims,
                   function_input, json_body, headers, client, wire>>

\* lines 491-546: the walk and the route-table lookup
Resolve ==
    /\ pc = "resolve"
    /\ LET out == ResolveRoute(route_tree, routes, files, request.path) IN
       /\ resolved' = out
       /\ IF out.kind = "route"
          THEN /\ pc' = "select"
               /\ UNCHANGED response
          ELSE /\ pc' = "write"
               /\ response' =
                     IF out.kind = "static"
                     THEN PicoSuccess([kind |-> "static", of |-> out.file])
                     ELSE PicoError("NotFound", <<"Route not found">>)
    /\ steps' = Append(steps, LogStep("resolve", 0, NoError))
    /\ UNCHANGED <<routeVars, request, readerVars, handler, jwt_claims, function_input,
                   json_body, headers, client, wire>>

\* a selection that falls back to the handler of another method of the route
SelectHandlerAnyMethod ==
    /\ pc = "select"
    /\ LET table == routes[resolved.key]
           method == IF request.method \in DOMAIN table THEN request.method
                     ELSE CHOOSE other \in DOMAIN table : TRUE
       IN
       /\ handler' = table[method]
       /\ jwt_claims' = extract_jwt_claims(request.cookies, secret_key)
       /\ pc' = "assemble"
       /\ UNCHANGED response
    /\ steps' = Append(steps, LogStep("select", 0, NoError))
    /\ UNCHANGED <<routeVars, request, resolved, readerVars, function_input, json_body,
                   headers, client, wire>>

\* lines 548-567: the handler of the request's method, then the session claims
SelectHandler ==
    /\ pc = "select"
    /\ IF request.method \in DOMAIN routes[resolved.key]
       THEN /\ handler' = routes[resolved.key][request.method]
            /\ jwt_claims' = extract_jwt_claims(request.cookies, secret_key)
            /\ pc' = "assemble"
            /\ UNCHANGED response
       ELSE /\ response' = PicoError("NotFound", <<"Method not allowed for this route">>)
            /\ pc' = "write"
            /\ UNCHANGED <<handler, jwt_claims>>
    /\ steps' = Append(steps, LogStep("select", 0, NoError))
    /\ UNCHANGED <<routeVars, request, resolved, readerVars, function_input, json_body,
                   headers, client, wire>>

\* an input map that starts from the parameters of the query string
AssembleWithQuery ==
    /\ pc = "assemble"
    /\ IF handler.sql_function_name = "none"
       THEN /\ pc' = "setjwt"
            /\ UNCHANGED <<function_input, response>>
       ELSE IF handler.sql_function_name \notin DOMAIN Functions
       THEN /\ response' = PicoError("InternalError", <<"SQL function not found">>)
            /\ pc' = "write"
            /\ UNCHANGED function_input
       ELSE IF request.body.kind = "Raw"
       THEN /\ pc' = "crashed"
            /\ UNCHANGED <<function_input, response>>
       ELSE /\ function_input' =
                  Overlay(Overlay(request.query, request.body.fields), resolved.params)
            /\ pc' = IF handler.pre_process THEN "pre" ELSE "validate"
            /\ UNCHANGED response
    /\ steps' = Append(steps, LogStep("assemble", 0, NoError))
    /\ UNCHANGED <<routeVars, request, resolved, readerVars, handler, jwt_claims,
                   json_body, headers, client, wire>>

\* lines 569-626 and 731-734: the function of the handler and its input map
Assemble ==
    /\ pc = "assemble"
    /\ IF handler.sql_function_name = "none"
       THEN /\ pc' = "setjwt"
            /\ UNCHANGED <<function_input, response>>
       ELSE IF handler.sql_function_name \notin DOMAIN Functions
       THEN /\ response' = PicoError("InternalError", <<"SQL function not found">>)
            /\ pc' = "write"
            /\ UNCHANGED function_input
       ELSE IF request.body.kind = "Raw"
       THEN /\ pc' = "crashed"
            /\ UNCHANGED <<function_input, response>>
       ELSE /\ function_input' = Overlay(request.body.fields, resolved.params)
            /\ pc' = IF handler.pre_process THEN "pre" ELSE "validate"
            /\ UNCHANGED response
    /\ steps' = Append(steps, LogStep("assemble", 0, NoError))
    /\ UNCHANGED <<routeVars, request, resolved, readerVars, handler, jwt_claims,
                   json_body, headers, client, wire>>

\* lines 630-681: the pre-process hook and the overlay of its result
PreProcess ==
    /\ pc = "pre"
    /\ \E first \in PreOutcomes, second \in PreOutcomes :
          /\ (first.ok \/ ~IsArityShaped(first.err)) => second = first
          /\ LET result == call_lua_function_with_optional_jwt(first, second) IN
             /\ steps' = steps \o HookCalls("pre_process", first, second, jwt_claims)
             /\ IF ~result.ok /\ is_user_lua_error(result.err)
                THEN /\ response' =
                           PicoError("BadRequest", extract_lua_error_message(result.err))
                     /\ pc' = "write"
                     /\ UNCHANGED function_input
                ELSE /\ function_input' =
                           IF result.ok /\ result.value.object
                           THEN Overlay(function_input, result.value.fields)
                           ELSE function_input
                     /\ pc' = "validate"
                     /\ UNCHANGED response
    /\ UNCHANGED <<routeVars, request, resolved, readerVars, handler, jwt_claims,
                   json_body, headers, client, wire>>

\* a validation that records the failure and lets the function run
ValidateKeepsGoing ==
    /\ pc = "validate"
    /\ LET missing == MissingParameter(Functions[handler.sql_function_name], function_input) IN
       IF missing # <<>>
       THEN response' =
               PicoError("BadRequest", <<"Missing required parameter: ", missing[1]>>)
       ELSE UNCHANGED response
    /\ pc' = "invoke"
    /\ steps' = Append(steps, LogStep("validate", 0, NoError))
    /\ UNCHANGED <<routeVars, request, resolved, readerVars, handler, jwt_claims,
                   function_input, json_body, headers, client, wire>>

\* lines 691-713: every declared parameter must be in the input map
Validate ==
    /\ pc = "validate"
    /\ LET missing == MissingParameter(Functions[handler.sql_function_name], function_input) IN
       IF missing # <<>>
       THEN /\ response' =
                  PicoError("BadRequest", <<"Missing required parameter: ", missing[1]>>)
            /\ pc' = "write"
       ELSE /\ pc' = "invoke"
            /\ UNCHANGED response
    /\ steps' = Append(steps, LogStep("validate", 0, NoError))
    /\ UNCHANGED <<routeVars, request, resolved, readerVars, handler, jwt_claims,
                   function_input, json_body, headers, client, wire>>

\* an invocation that records the failure of the function and goes on
InvokeGoesOn ==
    /\ pc = "invoke"
    /\ \E db \in DbResults :
          LET r == execute(Functions[handler.sql_function_name], function_input, db) IN
          CASE r.kind = "panic" ->
                  /\ pc' = "crashed"
                  /\ UNCHANGED <<json_body, response>>
            [] r.kind = "Err" ->
                  /\ response' = PicoError(r.value,
                                           <<"SQL execution failed: ", to_str(r.value)>>)
                  /\ pc' = "setjwt"
                  /\ UNCHANGED json_body
            [] r.kind = "Ok" ->
                  /\ json_body' = r.value
                  /\ pc' = "setjwt"
                  /\ UNCHANGED response
    /\ steps' = Append(steps, LogStep("execute", 0, NoError))
    /\ UNCHANGED <<routeVars, request, resolved, readerVars, handler, jwt_claims,
                   function_input, headers, client, wire>>

\* lines 715-729: function.execute
Invoke ==
    /\ pc = "invoke"
    /\ \E db \in DbResults :
          LET r == execute(Functions[handler.sql_function_name], function_input, db) IN
          CASE r.kind = "panic" ->
                  /\ pc' = "crashed"
                  /\ UNCHANGED <<json_body, response>>
            [] r.kind = "Err" ->
                  /\ response' = PicoError(r.value,
                                           <<"SQL execution failed: ", to_str(r.value)>>)
                  /\ pc' = "write"
                  /\ UNCHANGED json_body
            [] r.kind = "Ok" ->
                  /\ json_body' = r.value
                  /\ pc' = "setjwt"
                  /\ UNCHANGED response
    /\ steps' = Append(steps, LogStep("execute", 0, NoError))
    /\ UNCHANGED <<routeVars, request, resolved, readerVars, handler, jwt_claims,
                   function_input, headers, client, wire>>

\* a set-session step that replaces the claims before the token is signed
SetJwtClaimsBeforeSigning ==
    /\ pc = "setjwt"
    /\ IF ~handler.set_jwt
       THEN /\ pc' = "post"
            /\ UNCHANGED <<jwt_claims, headers, response, steps>>
       ELSE \E out \in SetJwtOutcomes, signed \in BOOLEAN :
               /\ ~(out.ok /\ out.value # "unconvertible") => signed
               /\ steps' = Append(steps, LogStep("set_jwt", 1, out.err))
               /\ IF out.ok /\ out.value = "unconvertible"
                  THEN /\ response' = PicoError("InternalError",
                                                <<"JWT claims conversion failed">>)
                       /\ pc' = "write"
                       /\ UNCHANGED <<jwt_claims, headers>>
                  ELSE IF out.ok
                  THEN /\ headers' =
                             IF signed
                             THEN MapInsert(headers, "Set-Cookie",
                                            SetCookieValue(encode(out.value, secret_key)))
                             ELSE headers
                       /\ jwt_claims' = out.value
                       /\ pc' = "post"
                       /\ UNCHANGED response
                  ELSE IF is_user_lua_error(out.err)
                  THEN /\ response' = PicoError("Unauthorized",
                                                extract_lua_error_message(out.err))
                       /\ pc' = "write"
                       /\ UNCHANGED <<jwt_claims, headers>>
                  ELSE /\ pc' = "post"
                       /\ UNCHANGED <<jwt_claims, headers, response>>
    /\ UNCHANGED <<routeVars, request, resolved, readerVars, handler, function_input,
                   json_body, client, wire>>

\* lines 738-795: the set_jwt hook, the signing and the session cookie
SetJwt ==
    /\ pc = "setjwt"
    /\ IF ~handler.set_jwt
       THEN /\ pc' = "post"
            /\ UNCHANGED <<jwt_claims, headers, response, steps>>
       ELSE \E out \in SetJwtOutcomes, signed \in BOOLEAN :
               /\ ~(out.ok /\ out.value # "unconvertible") => signed
               /\ steps' = Append(steps, LogStep("set_jwt", 1, out.err))
               /\ IF out.ok /\ out.value = "unconvertible"
                  THEN /\ response' = PicoError("InternalError",
                                                <<"JWT claims conversion failed">>)
                       /\ pc' = "write"
                       /\ UNCHANGED <<jwt_claims, headers>>
                  ELSE IF out.ok
                  THEN /\ headers' =
                             IF signed
                             THEN MapInsert(headers, "Set-Cookie",
                                            SetCookieValue(encode(out.value, secret_key)))
                             ELSE headers
                       /\ jwt_claims' = IF signed THEN out.value ELSE jwt_claims
                       /\ pc' = "post"
                       /\ UNCHANGED response
                  ELSE IF is_user_lua_error(out.err)
                  THEN /\ response' = PicoError("Unauthorized",
                                                extract_lua_error_message(out.err))
                       /\ pc' = "write"
                       /\ UNCHANGED <<jwt_claims, headers>>
                  ELSE /\ pc' = "post"
                       /\ UNCHANGED <<jwt_claims, headers, response>>
    /\ UNCHANGED <<routeVars, request, resolved, readerVars, handler, function_input,
                   json_body, client, wire>>

\* lines 800-843: the post-process hook replaces the payload
PostProcess ==
    /\ pc = "post"
    /\ IF ~handler.post_process
       THEN /\ pc' = "render"
            /\ UNCHANGED <<json_body, response, steps>>
       ELSE \E first \in PostOutcomes, second \in PostOutcomes :
               /\ (first.ok \/ ~IsArityShaped(first.err)) => second = first
               /\ LET result == call_lua_function_with_optional_jwt(first, second) IN
                  /\ steps' = steps \o HookCalls("post_process", first, second, jwt_claims)
                  /\ IF ~result.ok /\ is_user_lua_error(result.err)
                     THEN /\ response' = PicoError("BadRequest",
                                                   extract_lua_error_message(result.err))
                          /\ pc' = "write"
                          /\ UNCHANGED json_body
                     ELSE /\ json_body' =
                                IF ~result.ok THEN LuaRoundTrip(json_body)
                                ELSE IF result.value = "unconvertible" THEN json_body
                                ELSE result.value
                          /\ pc' = "render"
                          /\ UNCHANGED response
    /\ UNCHANGED <<routeVars, request, resolved, readerVars, handler, jwt_claims,
                   function_input, headers, client, wire>>

\* lines 845-887: the view, the content headers and the response
Render ==
    /\ pc = "render"
    /\ LET html == /\ request.accept # "none"
                   /\ request.accept = "text/html" \/ request.hx
                   /\ handler.view
           typed == IF request.accept = "none" THEN headers
                    ELSE MapInsert(headers, "Content-Type",
                                   IF html THEN "text/html" ELSE "application/json")
           body == [kind |-> IF html THEN "html" ELSE "json", of |-> <<json_body>>]
       IN
       /\ headers' = MapInsert(typed, "Content-Length", "body_bytes.len()")
       /\ response' = [PicoSuccess(body) EXCEPT !.headers = headers']
    /\ pc' = "write"
    /\ steps' = Append(steps, LogStep("render", 0, NoError))
    /\ UNCHANGED <<routeVars, request, resolved, readerVars, handler, jwt_claims,
                   function_input, json_body, client, wire>>

\* the peer resets the connection before the response is written
ClientResets ==
    /\ pc = "write"
    /\ client = "open"
    /\ client' = "reset"
    /\ UNCHANGED <<routeVars, pc, request, resolved, readerVars, handlingVars, wire>>

\* `s.write(...).unwrap()`: the response is written and the connection dropped,
\* or the write fails and unwrap panics
WriteResponse ==
    /\ pc = "write"
    /\ \/ /\ pc' = "accept"
          /\ request' = NoRequest
          /\ resolved' = NoOutcome
          /\ reader' = "idle"
          /\ handler' = NoHandler
          /\ jwt_claims' = "None"
          /\ function_input' = EmptyMap
          /\ json_body' = "null"
          /\ headers' = EmptyMap
          /\ response' = NoResponse
          /\ steps' = <<>>
          /\ client' = "none"
          /\ wire' = to_http_bytes(response)
       \/ /\ client = "reset"
          /\ pc' = "crashed"
          /\ UNCHANGED <<request, resolved, reader, pipeVars>>
    /\ UNCHANGED <<routeVars, stream, buf_len, body_len, short_reads>>

Next ==
    \/ InsertNextRoute
    \/ StartServer
    \/ AcceptStream
    \/ ReadHeaders
    \/ ReadBody
    \/ ParseRequest
    \/ RejectStream
    \/ Resolve
    \/ SelectHandler
    \/ Assemble
    \/ PreProcess
    \/ Validate
    \/ Invoke
    \/ SetJwt
    \/ PostProcess
    \/ Render
    \/ ClientResets
    \/ WriteResponse

Spec == Init /\ [][Next]_vars

----------------------------------------------------------------------------
(* The conversion of the request: parse_to_pico_request and Method::from_str.
   A text is a sequence of tokens: words and the separators "/", "?", "=",
   "&".  The service is run on requests that are converted from what the
   client sent, which the request keeps in its field http_request. *)

Separators == {"/", "?", "=", "&"}

\* str::split: the parts of a text between the occurrences of a separator
RECURSIVE Split(_, _)
Split(text, sep) ==
    IF \A i \in DOMAIN text : text[i] # sep THEN <<text>>
    ELSE LET at == CHOOSE i \in DOMAIN text :
                       text[i] = sep /\ \A j \in 1..(i - 1) : text[j] # sep
         IN <<SubSeq(text, 1, at - 1)>> \o Split(SubSeq(text, at + 1, Len(text)), sep)

\* a path text as the pieces between its slashes
PathPieces(text) ==
    LET parts == Split(text, "/") IN
    [i \in DOMAIN parts |-> IF parts[i] = <<>> THEN "" ELSE parts[i][1]]

\* parse_query_parameters: every match of (\w+)=(\w+), a later one replacing
\* an earlier one of the same key
RECURSIVE parse_query_parameters(_)
parse_query_parameters(query) ==
    IF Len(query) < 3 THEN EmptyMap
    ELSE IF query[1] \notin Separators /\ query[2] = "=" /\ query[3] \notin Separators
    THEN Overlay(query[1] :> query[3],
                 parse_query_parameters(SubSeq(query, 4, Len(query))))
    ELSE parse_query_parameters(Tail(query))

\* lines 300-311: the path and the query of a target
PathAndQuery(target) ==
    LET split_path == Split(target, "?") IN
    IF Len(split_path) = 1 THEN [path |-> split_path[1], query |-> EmptyMap]
    ELSE IF Len(split_path) = 2
    THEN [path |-> split_path[1],
          query |-> IF split_path[2] # <<>> THEN parse_query_parameters(split_path[2])
                    ELSE EmptyMap]
    ELSE [path |-> <<>>, query |-> EmptyMap]

\* the verbs a client sends, and str::to_lowercase on them
Verbs == {"GET", "Post", "PATCH"}

to_lowercase(verb) ==
    CASE verb = "GET" -> "get"
      [] verb = "Post" -> "post"
      [] verb = "PATCH" -> "patch"

\* Method::from_str
from_str(string) ==
    LET lower == to_lowercase(string) IN
    CASE lower = "get" -> [ok |-> TRUE, value |-> "GET"]
      [] lower = "post" -> [ok |-> TRUE, value |-> "POST"]
      [] lower = "put" -> [ok |-> TRUE, value |-> "PUT"]
      [] lower = "delete" -> [ok |-> TRUE, value |-> "DELETE"]
      [] lower = "ws_upgrade?" -> [ok |-> TRUE, value |-> "WS"]
      [] lower = "sse" -> [ok |-> TRUE, value |-> "SSE"]
      [] OTHER -> [ok |-> FALSE, value |-> "none"]

\* a verb that is not recognised is an error of the reader
MethodOrReject(verb) == IF from_str(verb).ok THEN from_str(verb).value ELSE "BadRequest"

\* lines 313-316: the method of the request
MethodOf(verb) == IF from_str(verb).ok THEN from_str(verb).value ELSE "GET"

\* the bytes of a body: a JSON object, form pairs, a text that is no JSON, nothing
BodyText(syntax, fields) == [syntax |-> syntax, fields |-> fields]

JsonNull == [type |-> "null", fields |-> EmptyMap]

\* serde_json::from_slice(..).unwrap_or_default()
from_slice(bytes) ==
    IF bytes.syntax = "json" THEN [type |-> "object", fields |-> bytes.fields]
    ELSE JsonNull

\* url::form_urlencoded::parse of form pairs or of nothing
form_urlencoded_parse(bytes) == IF bytes.syntax = "form" THEN bytes.fields ELSE EmptyMap

\* a classification that takes a body that is no JSON for raw bytes
ClassifyBodyStrict(content_type, bytes) ==
    CASE content_type \in {"absent", "application/json"} ->
            IF bytes.syntax = "json"
            THEN [kind |-> "Json", value |-> "object", fields |-> bytes.fields]
            ELSE [kind |-> "Raw", value |-> "none", fields |-> EmptyMap]
      [] content_type = "application/x-www-form-urlencoded" ->
            [kind |-> "Form", value |-> "none", fields |-> form_urlencoded_parse(bytes)]
      [] content_type = "mutipart/form-data" ->
            [kind |-> "Json", value |-> "null", fields |-> EmptyMap]
      [] OTHER -> [kind |-> "Raw", value |-> "none", fields |-> EmptyMap]

\* lines 268-298: the body by content type; `fields` is what the body gives
\* the function input (the entries of a JSON object, the pairs of a form)
ClassifyBody(content_type, bytes) ==
    CASE content_type \in {"absent", "application/json"} ->
            [kind |-> "Json", value |-> from_slice(bytes).type,
             fields |-> from_slice(bytes).fields]
      [] content_type = "application/x-www-form-urlencoded" ->
            [kind |-> "Form", value |-> "none", fields |-> form_urlencoded_parse(bytes)]
      [] content_type = "mutipart/form-data" ->
            [kind |-> "Json", value |-> "null", fields |-> EmptyMap]
      [] OTHER -> [kind |-> "Raw", value |-> "none", fields |-> EmptyMap]

\* "/users/42", "/users/42?name=bo", "/users/42?name=bo?id=1", "/users/42?",
\* "/users/42?name=bo&id=1"
Targets ==
    {<<"/", "users", "/", "42">>,
     <<"/", "users", "/", "42", "?", "name", "=", "bo">>,
     <<"/", "users", "/", "42", "?", "name", "=", "bo", "?", "id", "=", "1">>,
     <<"/", "users", "/", "42", "?">>,
     <<"/", "users", "/", "42", "?", "name", "=", "bo", "&", "id", "=", "1">>}

\* the content type and the bytes of the bodies that are sent
SentBodies ==
    {[content_type |-> "absent", bytes |-> BodyText("json", "id" :> "7")],
     [content_type |-> "absent", bytes |-> BodyText("invalid", EmptyMap)],
     [content_type |-> "application/json", bytes |-> BodyText("json", "id" :> "7")],
     [content_type |-> "application/json", bytes |-> BodyText("invalid", EmptyMap)],
     [content_type |-> "application/x-www-form-urlencoded",
      bytes |-> BodyText("form", ("id" :> "7") @@ ("name" :> "bo"))],
     [content_type |-> "text/plain", bytes |-> BodyText("invalid", EmptyMap)]}

\* the requests without a body
EmptyBodies ==
    {[content_type |-> ct, bytes |-> BodyText("empty", EmptyMap)] :
        ct \in {"absent", "application/json", "mutipart/form-data"}}

\* what handle_stream hands to parse_to_pico_request
HttpRequests ==
    {[method |-> v, path |-> t, content_type |-> b.content_type, bytes |-> b.bytes] :
        v \in Verbs, t \in Targets, b \in SentBodies \cup EmptyBodies}

\* parse_to_pico_request
parse_to_pico_request(http_request) ==
    [method |-> MethodOf(http_request.method),
     path |-> PathPieces(PathAndQuery(http_request.path).path),
     query |-> PathAndQuery(http_request.path).query,
     body |-> ClassifyBody(http_request.content_type, http_request.bytes),
     cookies |-> <<>>, accept |-> "none", hx |-> FALSE,
     http_request |-> http_request]

\* handle_stream returns Ok with the request converted from what was read
ParseHttpRequest ==
    /\ pc = "read"
    /\ reader = "Ok"
    /\ \E http_request \in HttpRequests :
          /\ body_len = 0 <=> http_request.bytes.syntax = "empty"
          /\ request' = parse_to_pico_request(http_request)
    /\ pc' = "resolve"
    /\ stream' = NoStream
    /\ buf_len' = 0
    /\ body_len' = 0
    /\ short_reads' = 0
    /\ UNCHANGED <<routeVars, resolved, reader, pipeVars>>

NextParse ==
    \/ InsertNextRoute
    \/ StartServer
    \/ AcceptStream
    \/ ReadHeaders
    \/ ReadBody
    \/ ParseHttpRequest
    \/ RejectStream
    \/ Resolve
    \/ SelectHandler
    \/ Assemble
    \/ PreProcess
    \/ Validate
    \/ Invoke
    \/ SetJwt
    \/ PostProcess
    \/ Render
    \/ ClientResets
    \/ WriteResponse

SpecParse == Init /\ [][NextParse]_vars

----------------------------------------------------------------------------
(* The accept loop as a thread that keeps running: the service on a few
   connections and requests, with a server thread that takes its next step
   whenever it has one.  A read blocks until the client has sent something or
   has closed; hooks, functions and renderers return. *)

\* connections with a short header block or none, with and without a body
LiveStreams ==
    {st \in Streams : /\ st.term \in {0, 40} /\ st.total \in {0, 10, 40, 50}
                      /\ st.request_line /\ st.content_length \in {0, 10}}

\* GET /users/42 with a JSON body, a body that is no JSON, text, no body
LiveRequests ==
    {r \in HttpRequests : /\ r.method = "GET" /\ r.path = <<"/", "users", "/", "42">>
                          /\ r.content_type \in {"absent", "text/plain"}}

InitLive ==
    /\ routes = (<<"users", ":id">> :> ("GET" :> HPre))
    /\ route_tree = EmptyTree
    /\ pending = DOMAIN routes
    /\ files = ServiceFiles
    /\ pc = "build"
    /\ request = NoRequest
    /\ resolved = NoOutcome
    /\ IdleReader
    /\ IdlePipeline

\* listener.incoming() yields one of the connections
AcceptLiveStream == AcceptStream /\ stream' \in LiveStreams

\* handle_stream returns Ok for one of the requests
ParseLiveRequest == ParseHttpRequest /\ request'.http_request \in LiveRequests

\* the steps of the server thread
ServerStep ==
    \/ InsertNextRoute
    \/ StartServer
    \/ AcceptLiveStream
    \/ ReadHeaders
    \/ ReadBody
    \/ ParseLiveRequest
    \/ RejectStream
    \/ Resolve
    \/ SelectHandler
    \/ Assemble
    \/ PreProcess
    \/ Validate
    \/ Invoke
    \/ SetJwt
    \/ PostProcess
    \/ Render
    \/ WriteResponse

NextLive == ServerStep \/ ClientResets

SpecLive == InitLive /\ [][NextLive]_vars /\ WF_vars(ServerStep)

----------------------------------------------------------------------------
(* The request handler of the rico crate (src/rico/src/lib.rs): the older
   copy of the library, whose handler returns Result<Vec<u8>, ResponseCode>.
   The model runs the handler of one request from its first line to its
   return; pc names the step that is about to run. *)

\* `let mut _current = &mut route_tree;` inside the loop over the segments:
\* every segment of a route becomes a child of the root
RECURSIVE RicoInsertSegs(_, _)
RicoInsertSegs(tree, segs) ==
    IF segs = <<>> THEN tree
    ELSE LET seg == Head(segs)
             child == <<ChildKey(seg)>>
         IN  IF seg = "" THEN RicoInsertSegs(tree, Tail(segs))
             ELSE RicoInsertSegs(IF child \in DOMAIN tree THEN tree
                                 ELSE [n \in (DOMAIN tree) \cup {child} |->
                                          IF n = child THEN seg ELSE tree[n]],
                                 Tail(segs))

RECURSIVE RicoBuildTree(_)
RicoBuildTree(order) ==
    IF order = <<>> THEN EmptyTree
    ELSE RicoInsertSegs(RicoBuildTree(SubSeq(order, 1, Len(order) - 1)), order[Len(order)])

\* the walk: literal child, else wildcard child, else the static file; the
\* route key is the concatenation of the parameter names, with no '/' between
RECURSIVE RicoWalk(_, _, _, _, _, _, _)
RicoWalk(tree, fs, path, segs, node, key, params) ==
    IF segs = <<>> THEN Outcome("walked", key, params, <<>>, 0, <<>>)
    ELSE LET seg == Head(segs) IN
         IF seg = "" THEN RicoWalk(tree, fs, path, Tail(segs), node, key, params)
         ELSE IF HasChild(tree, node, seg) THEN
             RicoWalk(tree, fs, path, Tail(segs), Append(node, seg),
                      Append(key, tree[Append(node, seg)]), params)
         ELSE IF HasChild(tree, node, "*") THEN
             RicoWalk(tree, fs, path, Tail(segs), Append(node, "*"),
                      Append(key, tree[Append(node, "*")]),
                      MapInsert(params, tree[Append(node, "*")], seg))
         ELSE IF try_serve_static_file(fs, path).ok THEN
             Outcome("static", key, params, <<>>, 1, try_serve_static_file(fs, path).file)
         ELSE Outcome("no_match", key, params, <<>>, 1, <<>>)

\* self.routes.get(&pico_route_path): the key has no '/', so it can only equal
\* a registered path of one piece
RicoKeyInTable(key, table) == Len(key) = 1 /\ key \in DOMAIN table

\* Validation::new(Algorithm::HS256) with "exp" required: a token verifies
\* when its claims carry an "exp" that is not in the past
ClaimsWithExp == ExpiredClaims

RicoDecode(token, key) ==
    IF Len(token) = 2 /\ token[2] = key /\ token[1] \in ClaimsWithExp \ ExpiredClaims
    THEN <<token[1]>>
    ELSE <<>>

\* extract_jwt_claims of the rico crate
RicoExtractJwtClaims(cookies, key) ==
    LET verified == {i \in 1..Len(cookies) :
                        /\ cookies[i].name = "pico_jwt"
                        /\ RicoDecode(cookies[i].token, key) # <<>>}
    IN  IF verified = {} THEN "None"
        ELSE RicoDecode(cookies[CHOOSE i \in verified : \A j \in verified : i <= j].token,
                        key)[1]

\* the input of the function: for every declared parameter the body field,
\* else the path parameter; no input when a parameter has neither
RicoInput(parameters, body, route_parameters) ==
    LET names == {parameters[i] : i \in 1..Len(parameters)} IN
    IF \E p \in names : p \notin DOMAIN body /\ p \notin DOMAIN route_parameters
    THEN [ok |-> FALSE, input |-> EmptyMap]
    ELSE [ok |-> TRUE,
          input |-> [p \in names |-> IF p \in DOMAIN body THEN body[p]
                                     ELSE route_parameters[p]]]

\* "login" with a GET handler, and "users/:id"
RicoTables ==
    {(<<"login">> :> ("GET" :> h)) @@ (<<"users", ":id">> :> ("GET" :> h)) :
        h \in HandlerUniverse}

\* "/login", "/42", "/nope/here", "/style.css"
RicoPaths == {<<"", "login">>, <<"", "42">>, <<"", "login", "here">>, <<"", "style.css">>}

RicoRequests ==
    {[method |-> m, path |-> p, body |-> b, cookies |-> c, accept |-> a, hx |-> h] :
        m \in Methods, p \in RicoPaths, b \in Bodies, c \in CookieLists,
        a \in {"none", "text/html"}, h \in BOOLEAN}

InitRico ==
    /\ routes \in RicoTables
    /\ route_tree = RicoBuildTree(<<<<"login">>, <<"users", ":id">>>>)
    /\ pending = {}
    /\ files = ServiceFiles
    /\ pc = "resolve"
    /\ request \in RicoRequests
    /\ resolved = NoOutcome
    /\ IdleReader
    /\ IdlePipeline

\* lines 421-461: the walk and the route-table lookup
RicoResolve ==
    /\ pc = "resolve"
    /\ LET out == RicoWalk(route_tree, files, request.path, request.path, <<>>, <<>>,
                           EmptyMap) IN
       IF out.kind = "walked" /\ RicoKeyInTable(out.key, routes)
       THEN /\ resolved' = [out EXCEPT !.kind = "route"]
            /\ pc' = "select"
            /\ UNCHANGED response
       ELSE /\ resolved' = out
            /\ pc' = "write"
            /\ response' = IF out.kind = "static"
                           THEN PicoSuccess([kind |-> "static", of |-> out.file])
                           ELSE StatusOnly("NotFound")
    /\ steps' = Append(steps, LogStep("resolve", 0, NoError))
    /\ UNCHANGED <<routeVars, request, readerVars, handler, jwt_claims, function_input,
                   json_body, headers, client, wire>>

\* lines 463-472: the handler of the request's method
RicoSelect ==
    /\ pc = "select"
    /\ IF request.method \in DOMAIN routes[resolved.key]
       THEN /\ handler' = routes[resolved.key][request.method]
            /\ pc' = "assemble"
            /\ UNCHANGED response
       ELSE /\ response' = StatusOnly("NotFound")
            /\ pc' = "write"
            /\ UNCHANGED handler
    /\ steps' = Append(steps, LogStep("select", 0, NoError))
    /\ UNCHANGED <<routeVars, request, resolved, readerVars, jwt_claims, function_input,
                   json_body, headers, client, wire>>

\* lines 475-522 and 584-587: the function of the handler and its input
RicoAssemble ==
    /\ pc = "assemble"
    /\ IF handler.sql_function_name = "none"
       THEN /\ pc' = "post"
            /\ UNCHANGED <<function_input, response>>
       ELSE IF handler.sql_function_name \notin DOMAIN Functions
       THEN /\ response' = StatusOnly("InternalError")
            /\ pc' = "write"
            /\ UNCHANGED function_input
       ELSE IF request.body.kind = "Raw"
       THEN /\ pc' = "crashed"
            /\ UNCHANGED <<function_input, response>>
       ELSE LET r == RicoInput(Functions[handler.sql_function_name], request.body.fields,
                               resolved.params) IN
            IF r.ok
            THEN /\ function_input' = r.input
                 /\ pc' = IF handler.pre_process THEN "pre" ELSE "invoke"
                 /\ UNCHANGED response
            ELSE /\ response' = StatusOnly("BadRequest")
                 /\ pc' = "write"
                 /\ UNCHANGED function_input
    /\ steps' = Append(steps, LogStep("assemble", 0, NoError))
    /\ UNCHANGED <<routeVars, request, resolved, readerVars, handler, jwt_claims,
                   json_body, headers, client, wire>>

\* lines 525-569: the pre-process hook; every error is logged and passed over
RicoPreProcess ==
    /\ pc = "pre"
    /\ \E first \in PreOutcomes, second \in PreOutcomes :
          /\ (first.ok \/ ~IsArityShaped(first.err)) => second = first
          /\ LET result == call_lua_function_with_optional_jwt(first, second) IN
             /\ steps' = steps \o HookCalls("pre_process", first, second,
                                            RicoExtractJwtClaims(request.cookies, secret_key))
             /\ function_input' =
                   IF result.ok /\ result.value.object
                   THEN Overlay(function_input, result.value.fields)
                   ELSE function_input
    /\ pc' = "invoke"
    /\ UNCHANGED <<routeVars, request, resolved, readerVars, handler, jwt_claims,
                   json_body, headers, response, client, wire>>

\* lines 572-583: function.execute
RicoExecute ==
    /\ pc = "invoke"
    /\ \E db \in DbResults :
          LET r == execute(Functions[handler.sql_function_name], function_input, db) IN
          CASE r.kind = "panic" ->
                  /\ pc' = "crashed"
                  /\ UNCHANGED <<json_body, response>>
            [] r.kind = "Err" ->
                  /\ response' = StatusOnly(r.value)
                  /\ pc' = "write"
                  /\ UNCHANGED json_body
            [] r.kind = "Ok" ->
                  /\ json_body' = r.value
                  /\ pc' = "post"
                  /\ UNCHANGED response
    /\ steps' = Append(steps, LogStep("execute", 0, NoError))
    /\ UNCHANGED <<routeVars, request, resolved, readerVars, handler, jwt_claims,
                   function_input, headers, client, wire>>

\* lines 591-629: the post-process hook, which comes before the set_jwt hook
RicoPostProcess ==
    /\ pc = "post"
    /\ IF ~handler.post_process
       THEN UNCHANGED <<json_body, steps>>
       ELSE \E first \in PostOutcomes, second \in PostOutcomes :
               /\ (first.ok \/ ~IsArityShaped(first.err)) => second = first
               /\ LET result == call_lua_function_with_optional_jwt(first, second) IN
                  /\ steps' = steps \o HookCalls("post_process", first, second,
                                                 RicoExtractJwtClaims(request.cookies,
                                                                      secret_key))
                  /\ json_body' =
                        IF ~result.ok THEN LuaRoundTrip(json_body)
                        ELSE IF result.value = "unconvertible" THEN json_body
                        ELSE result.value
    /\ pc' = "setjwt"
    /\ UNCHANGED <<routeVars, request, resolved, readerVars, handler, jwt_claims,
                   function_input, headers, response, client, wire>>

\* lines 631-675: the set_jwt hook, the signing and the session cookie
RicoSetJwt ==
    /\ pc = "setjwt"
    /\ IF ~handler.set_jwt
       THEN /\ pc' = "render"
            /\ UNCHANGED <<headers, response, steps>>
       ELSE \E out \in SetJwtOutcomes, signed \in BOOLEAN :
               /\ ~(out.ok /\ out.value # "unconvertible") => signed
               /\ steps' = Append(steps, LogStep("set_jwt", 1, out.err))
               /\ IF out.ok /\ out.value = "unconvertible"
                  THEN /\ response' = StatusOnly("InternalError")
                       /\ pc' = "write"
                       /\ UNCHANGED headers
                  ELSE /\ headers' =
                             IF out.ok /\ signed
                             THEN MapInsert(headers, "Set-Cookie",
                                            SetCookieValue(encode(out.value, secret_key)))
                             ELSE headers
                       /\ pc' = "render"
                       /\ UNCHANGED response
    /\ UNCHANGED <<routeVars, request, resolved, readerVars, handler, jwt_claims,
                   function_input, json_body, client, wire>>

NextRico ==
    \/ RicoResolve
    \/ RicoSelect
    \/ RicoAssemble
    \/ RicoPreProcess
    \/ RicoExecute
    \/ RicoPostProcess
    \/ RicoSetJwt
    \/ Render

SpecRico == InitRico /\ [][NextRico]_vars

----------------------------------------------------------------------------
(* Claims about the accept loop and the pipeline, checked under Spec *)

\* C1: handling a connection never ends the process: whatever the request and
\* whenever the client goes away, the server thread does not panic.
C1_AcceptLoopNeverCrashes == pc # "crashed"

\* C2: once the pre-process hook has raised a user-level error, the response
\* of the request is BadRequest with the message of a user-level error the
\* hook raised, and the server function is not invoked for the request.
C2_PreProcessUserErrorShortCircuits ==
    LET raised == {i \in 1..Len(steps) :
                      steps[i].op = "pre_process" /\ is_user_lua_error(steps[i].raised)}
    IN  raised # {} =>
           /\ response.status = "BadRequest"
           /\ \E i \in raised : response.message = extract_lua_error_message(steps[i].raised)
           /\ \A j \in 1..Len(steps) : steps[j].op # "execute"

\* C3: once validation has run for a handler with a server function: if a
\* declared parameter is absent from the merged input map, the response is
\* BadRequest, its message names an absent parameter and the function is not
\* invoked; if none is absent, there is no missing-parameter error.
C3_MissingParameterRejected ==
    (\E i \in 1..Len(steps) : steps[i].op = "validate") =>
       LET declared == Functions[handler.sql_function_name]
           absent == {declared[k] : k \in 1..Len(declared)} \ DOMAIN function_input
       IN  IF absent # {}
           THEN /\ response.status = "BadRequest"
                /\ \E p \in absent :
                      response.message = <<"Missing required parameter: ", p>>
                /\ \A j \in 1..Len(steps) : steps[j].op # "execute"
           ELSE response.message = <<>>
                   \/ Head(response.message) # "Missing required parameter: "

\* validation has rejected a request that has "id" and lacks "name"
C3_Witness ==
    /\ \E i \in 1..Len(steps) : steps[i].op = "validate"
    /\ "id" \in DOMAIN function_input
    /\ response.status = "BadRequest"
    /\ response.message = <<"Missing required parameter: ", "name">>

\* the token of the session cookie the response carries
SetCookieToken(value) == SubSeq(value, 2, Len(value) - 1)

RECURSIVE FirstVerified(_)
FirstVerified(cookies) ==
    IF cookies = <<>> THEN "None"
    ELSE IF /\ Head(cookies).name = "pico_jwt"
            /\ Len(Head(cookies).token) = 2
            /\ Head(cookies).token[2] = secret_key
            /\ Head(cookies).token[1] \notin ExpiredClaims
         THEN Head(cookies).token[1]
         ELSE FirstVerified(Tail(cookies))

\* C13: the claims decoded for a request are those of the first pico_jwt
\* cookie, in order of appearance, whose token verifies; cookies that fail are
\* skipped without ending the request; with no cookie, no pico_jwt cookie or
\* none that verifies the claims are absent.
C13_FirstVerifiedCookieWins ==
    pc \in {"assemble", "pre", "validate", "invoke", "setjwt"} =>
       /\ jwt_claims = FirstVerified(request.cookies)
       /\ response = NoResponse

\* a request whose second pico_jwt cookie is the first that verifies
C13_Witness ==
    /\ pc = "assemble"
    /\ Len(request.cookies) = 3
    /\ jwt_claims = "cookie_claims"

\* the response is the one the final step of the pipeline built
FromRender == pc = "write" /\ response.status = "Ok" /\ response.body.kind \in {"json", "html"}

\* the request asks for HTML: Accept is text/html or hx-request is true
HtmlRequested == request.accept = "text/html" \/ request.hx

\* C14: every 200 response of the pipeline has a Content-Type header: text/html
\* with the markup as body exactly when HTML is requested and the handler has
\* a view, application/json with the serialized payload in every other case.
C14_ContentTypeAlwaysSet ==
    FromRender =>
       /\ "Content-Type" \in DOMAIN response.headers
       /\ IF HtmlRequested /\ handler.view
          THEN response.headers["Content-Type"] = "text/html" /\ response.body.kind = "html"
          ELSE /\ response.headers["Content-Type"] = "application/json"
               /\ response.body.kind = "json"

\* C15: a request whose hx-request header is true gets the rendered view of a
\* handler that has one, whatever its Accept header is, absent included.
C15_FragmentHeaderSelectsHtml ==
    FromRender /\ request.hx /\ handler.view =>
       /\ response.body.kind = "html"
       /\ "Content-Type" \in DOMAIN response.headers
       /\ response.headers["Content-Type"] = "text/html"

\* C16: a response about to be written has one of the six status codes, and
\* 200 only if the reader returned a request and either the final step of the
\* pipeline built the response or the static lookup supplied a file.
C16_StatusCodes ==
    pc = "write" =>
       /\ to_code(response.status) \in {200, 400, 401, 404, 431, 500}
       /\ to_code(response.status) = 200 =>
             /\ reader = "Ok"
             /\ \/ /\ steps[Len(steps)].op = "render"
                   /\ response.body.kind \in {"json", "html"}
                \/ /\ steps[Len(steps)].op = "resolve"
                   /\ resolved.kind = "static"
                   /\ response.body = [kind |-> "static", of |-> StaticFilePath(request.path)]
                   /\ StaticFilePath(request.path) \in files

\* a 200 response built by the final step, and one supplied by the static lookup
C16_Witness ==
    /\ pc = "write"
    /\ response.status = "Ok"
    /\ steps[Len(steps)].op = "render"
    /\ handler.post_process

\* a response that reports a failure
IsFailure(r) == r # NoResponse /\ r.status # "Ok"

\* no step of the request ran twice: the only calls that repeat are the
\* two-argument and one-argument calls of one hook after an arity-shaped error
NoStepRetried ==
    \A i, j \in DOMAIN steps :
        i < j /\ steps[i].op = steps[j].op =>
            /\ j = i + 1
            /\ steps[i].args = 2 /\ steps[j].args = 1
            /\ IsArityShaped(steps[i].raised)

\* the step that produces a failure hands it to the write, and from there
\* nothing runs but the write of that response
FailureGoesToTheSocket ==
    /\ IsFailure(response') /\ response' # response => pc' = "write"
    /\ IsFailure(response) =>
          /\ pc = "write"
          /\ \/ pc' = "accept" /\ wire' = to_http_bytes(response)
             \/ /\ client = "reset" \/ client' = "reset"
                /\ pc' \in {"write", "crashed"}
                /\ wire' = wire /\ steps' = steps /\ response' = response
                /\ json_body' = json_body /\ headers' = headers

\* C17: a failure at any step ends the pipeline: the step that produced the
\* failure response is the last step of the request, no step has run twice,
\* and the bytes written to the connection are those of that response.
C17_TerminalFailureAborts ==
    [](IsFailure(response) => NoStepRetried) /\ [][FailureGoesToTheSocket]_vars

\* a failure of the server function in a handler that has a set-session hook,
\* a post-process hook and a view, on its way to the socket
C17_Witness ==
    /\ pc = "write" /\ response.status = "InternalError"
    /\ handler = HFull
    /\ steps # <<>> /\ steps[Len(steps)].op = "execute"

\* the tree that configuration loading builds for the route table
ConfiguredTree == BuildTree(<<<<"users", ":id">>>>)

\* C19: once the server accepts connections the route tree is the one that
\* configuration loading built for the route table, and no step of any
\* request, successful or failed, changes the tree or the table.
C19_RoutesReadOnly ==
    /\ [](pc # "build" => route_tree = ConfiguredTree /\ routes \in ServiceTables)
    /\ [][pc # "build" => route_tree' = route_tree /\ routes' = routes]_vars

\* a request for a path that is not in the tree has been answered with 404 and
\* the server is accepting again
C19_Witness ==
    /\ pc = "accept"
    /\ wire = to_http_bytes(PicoError("NotFound", <<"Route not found">>))
    /\ route_tree = ConfiguredTree

\* a connection is inside the reader
InReader == stream # NoStream

\* a request is inside the pipeline or its answer is still to be written
InPipeline == request # NoRequest \/ response # NoResponse \/ steps # <<>>

\* C20: the listener takes a connection only when the one before it has been
\* read, processed and answered; at no moment is one connection in the reader
\* while a request is in the pipeline, and the server function runs on the
\* database connection for one request with no connection being read.
C20_RequestsNeverOverlap ==
    /\ [](~(InReader /\ InPipeline))
    /\ [](pc = "invoke" => request # NoRequest /\ ~InReader)
    /\ [][~InReader /\ InReader' => pc = "accept" /\ ~InPipeline /\ client = "none"]_vars

\* a request went through the reader, its server function and the rendering,
\* its answer has been written and the listener is free for the next connection
C20_Witness ==
    /\ pc = "accept" /\ ~InReader /\ ~InPipeline
    /\ wire # <<>> /\ wire[2] = "200"
    /\ \A i \in DOMAIN wire : wire[i] # "file_contents"

\* a status line starts at position i
IsStatusLineStart(bytes, i) == bytes[i] = "HTTP/1.1 "

\* an empty line, the end of a header block, is at position i
IsEmptyLine(bytes, i) == i > 1 /\ bytes[i] = "\r\n" /\ bytes[i - 1] = "\r\n"

\* the status lines and the header blocks of a byte sequence
StatusLinesOf(bytes) == Cardinality({i \in DOMAIN bytes : IsStatusLineStart(bytes, i)})
HeaderBlocksOf(bytes) == Cardinality({i \in DOMAIN bytes : IsEmptyLine(bytes, i)})

\* the contents of a file are among the bytes
HasFileContents(bytes) == \E i \in DOMAIN bytes : bytes[i] = "file_contents"

\* C18: what has been written to a connection when the server goes back to
\* accepting is exactly one response, one status line and one header block
\* followed by the body, and the connection is closed; this includes the
\* responses of the static fallback.
C18_ExactlyOneResponseWritten ==
    pc = "accept" /\ wire # <<>> =>
        /\ StatusLinesOf(wire) = 1
        /\ HeaderBlocksOf(wire) = 1
        /\ client = "none"

\* what every response that is not a static file looks like on the wire
C18_NonStaticWritesOneResponse ==
    pc = "accept" /\ wire # <<>> /\ ~HasFileContents(wire) =>
        /\ StatusLinesOf(wire) = 1
        /\ HeaderBlocksOf(wire) = 1
        /\ client = "none"

\* a static file has been written to the connection
C18_StaticWritten == pc = "accept" /\ HasFileContents(wire)

\* the claims a hook was called with when it was called with two arguments
ClaimsPassedTo(op) ==
    {steps[i].jwt : i \in {j \in DOMAIN steps : steps[j].op = op /\ steps[j].args = 2}}

\* the set-session hook has returned and the step has gone on to post-process
SetJwtReturned ==
    /\ pc = "setjwt" /\ pc' = "post"
    /\ steps' # steps /\ steps'[Len(steps')].raised = NoError

\* C22: when the set-session hook has returned claims and the token is signed,
\* the headers get a Set-Cookie for pico_jwt with the token and the flags
\* HttpOnly and Path=/, the final response carries it, and the claims the
\* post-process hook of the request is called with are the new claims.
C22_NewClaimsReachPostProcess ==
    /\ []("Set-Cookie" \in DOMAIN headers =>
             LET value == headers["Set-Cookie"] IN
             /\ Len(value) = 4
             /\ value[1] = "pico_jwt=" /\ value[4] = "; HttpOnly; Path=/;"
             /\ <<value[2], value[3]>> = encode(jwt_claims, secret_key)
             /\ ClaimsPassedTo("post_process") \subseteq {jwt_claims}
             /\ FromRender => response.headers["Set-Cookie"] = value)
    /\ [][SetJwtReturned =>
             \/ "Set-Cookie" \in DOMAIN headers' /\ jwt_claims' # jwt_claims
             \/ headers' = headers /\ jwt_claims' = jwt_claims]_vars

\* the post-process hook has been called with the claims the set-session hook
\* returned, for a request that came with other claims in its cookie
C22_Witness ==
    /\ "Set-Cookie" \in DOMAIN headers
    /\ request.cookies # <<>> /\ extract_jwt_claims(request.cookies, secret_key) = "cookie_claims"
    /\ ClaimsPassedTo("post_process") = {"new_claims"}
    /\ ClaimsPassedTo("pre_process") = {"cookie_claims"}

\* the request was ended by a user-level error of its post-process hook
EndedByPostProcess ==
    /\ pc = "write" /\ response.status = "BadRequest"
    /\ steps # <<>> /\ steps[Len(steps)].op = "post_process"
    /\ is_user_lua_error(steps[Len(steps)].raised)

\* the entries of the history that are calls of the set-session hook
SetJwtCalls == {i \in DOMAIN steps : steps[i].op = "set_jwt"}

\* C23: the set-session step ends a request in one way only, a user-level
\* error of the hook, answered with Unauthorized and the hook's message; after
\* any other failure of the step the request goes on, and its response is a
\* 200 without a session cookie.
C23_SetJwtFailuresClassified ==
    pc = "write" /\ SetJwtCalls # {} =>
        \A i \in SetJwtCalls :
            /\ i = Len(steps) =>
                  /\ is_user_lua_error(steps[i].raised)
                  /\ response.status = "Unauthorized"
                  /\ Contains(response.message, "denied")
            /\ i < Len(steps) /\ steps[i].raised # NoError =>
                  /\ ~is_user_lua_error(steps[i].raised)
                  /\ response.status = "Ok" \/ EndedByPostProcess
                  /\ "Set-Cookie" \notin DOMAIN response.headers

\* what holds of the step: a user-level error is answered with Unauthorized, a
\* result without JSON form with InternalError, and after another error of the
\* hook the request goes on without a cookie and with its claims unchanged
C23_SetJwtFailuresInCode ==
    /\ pc = "write" /\ SetJwtCalls # {} =>
          \A i \in SetJwtCalls :
              /\ i = Len(steps) =>
                    \/ /\ is_user_lua_error(steps[i].raised)
                       /\ response.status = "Unauthorized"
                    \/ /\ steps[i].raised = NoError
                       /\ response = PicoError("InternalError",
                                               <<"JWT claims conversion failed">>)
              /\ i < Len(steps) /\ steps[i].raised # NoError =>
                    /\ ~is_user_lua_error(steps[i].raised)
                    /\ "Set-Cookie" \notin DOMAIN response.headers
                    /\ response.status = "Ok" \/ EndedByPostProcess

\* the set-session hook returned claims and the token could not be signed: the
\* step went on to post-process with no cookie in the headers
SigningFailed ==
    /\ SetJwtCalls # {}
    /\ \A i \in SetJwtCalls : steps[i].raised = NoError
    /\ "Set-Cookie" \notin DOMAIN headers
    /\ pc \in {"post", "render"} \/ (pc = "write" /\ steps[Len(steps)].op # "set_jwt")

\* C24: when the signing of the new claims fails the request goes on: the
\* claims in flight are still those of the request cookie, the post-process
\* hook is called with them, the response has no Set-Cookie header and its
\* status is 200 (unless a user-level error of the post-process hook ends it).
C24_SigningFailureOmitsCookie ==
    SigningFailed =>
        /\ jwt_claims = extract_jwt_claims(request.cookies, secret_key)
        /\ ClaimsPassedTo("post_process") \subseteq {jwt_claims}
        /\ pc = "write" =>
              /\ "Set-Cookie" \notin DOMAIN response.headers
              /\ response.status = "Ok" \/ EndedByPostProcess

\* a response was rendered for a request with session claims after the signing
\* of new claims had failed; post-process was called with the old claims
C24_Witness ==
    /\ SigningFailed /\ FromRender
    /\ jwt_claims = "cookie_claims"
    /\ ClaimsPassedTo("post_process") = {"cookie_claims"}

\* the post-process hook has run and the request goes on to the rendering
PostProcessReturned == pc = "post" /\ pc' = "render" /\ steps' # steps

\* C25: a post-process hook that fails with anything but a user-level error
\* leaves the payload exactly as it was before the hook ran, Null included; a
\* user-level error ends the request with BadRequest; the result of a hook that
\* succeeds replaces the payload.
C25_PostProcessFailureKeepsPayload ==
    [][/\ PostProcessReturned /\ steps'[Len(steps')].raised # NoError =>
             json_body' = json_body
       /\ PostProcessReturned /\ steps'[Len(steps')].raised = NoError =>
             json_body' \in {"transformed", json_body}
       /\ pc = "post" /\ pc' = "write" => response'.status = "BadRequest"]_vars

\* what holds: the payload is kept unless it is Null, which comes back as the
\* empty table that was handed to the hook in its place
C25_PostProcessFailureKeepsNonNull ==
    [][PostProcessReturned /\ steps'[Len(steps')].raised # NoError =>
           json_body' = IF json_body = "null" THEN "empty_table" ELSE json_body]_vars

\* the errors of a hook that are not user-level errors
SystemFaults == {SystemErrorArity, SystemError}

\* the pre-process step has run and its last call of the hook raised a fault
PreProcessFaulted ==
    /\ pc = "pre" /\ steps' # steps
    /\ steps'[Len(steps')].op = "pre_process"
    /\ steps'[Len(steps')].raised \in SystemFaults

\* C26: when the pre-process hook fails with an error that is not a user-level
\* error, the request goes on to the validation with the input map as it was
\* assembled from the body and the path, and that map reaches the function.
C26_PreProcessFailureKeepsInput ==
    [][/\ PreProcessFaulted =>
             /\ pc' = "validate"
             /\ function_input' = function_input
             /\ function_input = Overlay(request.body.fields, resolved.params)
             /\ response' = NoResponse
       /\ pc \in {"validate", "invoke"} /\ pc' # "accept" =>
             function_input' = function_input]_vars

\* the validation is about to run on a map with a body field and a path
\* parameter after the pre-process hook raised a fault
C26_Witness ==
    /\ pc = "validate"
    /\ steps[Len(steps)].op = "pre_process" /\ steps[Len(steps)].raised = SystemError
    /\ function_input = Overlay(request.body.fields, resolved.params)
    /\ DOMAIN request.body.fields # {} /\ DOMAIN resolved.params # {}

\* the errors that are raised inside the body of a hook: user-level errors and
\* internal faults, none of them a mismatch of the number of arguments
RaisedInsideHook == LuaErrors

\* the calls of a hook in the history of the request
CallsOf(op) == {i \in DOMAIN steps : steps[i].op = op}

\* C27: a pre-process or post-process hook is called with two arguments; when
\* that call fails with an error raised inside the hook, a user-level error or
\* an internal fault, the hook is not called again and that error is the one
\* the step acts on (a user-level error ends the request with BadRequest).
C27_FallbackOnlyOnArityMismatch ==
    \A op \in {"pre_process", "post_process"} :
        \A i \in CallsOf(op) :
            steps[i].args = 2 /\ steps[i].raised \in RaisedInsideHook =>
                /\ CallsOf(op) = {i}
                /\ is_user_lua_error(steps[i].raised) =>
                      /\ pc \in {"write", "crashed"}
                      /\ response.status = "BadRequest"
                      /\ response.message = extract_lua_error_message(steps[i].raised)

\* what holds: the hook is called once unless the text of the error holds
\* "attempt to call" or "wrong number of arguments"
C27_FallbackOnArityShapedText ==
    \A op \in {"pre_process", "post_process"} :
        \A i \in CallsOf(op) :
            steps[i].args = 2 /\ ~IsArityShaped(steps[i].raised) =>
                /\ CallsOf(op) = {i}
                /\ is_user_lua_error(steps[i].raised) =>
                      /\ pc \in {"write", "crashed"}
                      /\ response.status = "BadRequest"
                      /\ response.message = extract_lua_error_message(steps[i].raised)

\* the input map is about to be handed to the pre-process hook, or to the
\* validation when the handler has no such hook
InputAssembled == pc = "pre" \/ (pc = "validate" /\ ~handler.pre_process)

\* C28: in the assembled input map every name bound by the walk has the value
\* of its path segment, also when the body has a field of that name, and every
\* other body field has its body value; the map has no further entries.
C28_PathParametersOverrideBody ==
    InputAssembled =>
        /\ DOMAIN function_input = DOMAIN request.body.fields \cup DOMAIN resolved.params
        /\ \A k \in DOMAIN resolved.params :
              /\ function_input[k] = resolved.params[k]
              /\ \E i \in DOMAIN request.path : function_input[k] = request.path[i]
        /\ \A k \in DOMAIN request.body.fields \ DOMAIN resolved.params :
              function_input[k] = request.body.fields[k]

\* a request whose body has a field with the name the path binds and another
\* field is about to be pre-processed
C28_Witness ==
    /\ pc = "pre"
    /\ ":id" \in DOMAIN request.body.fields /\ ":id" \in DOMAIN resolved.params
    /\ request.body.fields[":id"] = "9" /\ function_input[":id"] = "42"
    /\ function_input["name"] = "bo"

\* the handler of the request has no server function and the request has got
\* past the assembling of its input
PastAssembleWithoutFunction ==
    /\ pc \in {"setjwt", "post", "render", "write"}
    /\ \E i \in DOMAIN steps : steps[i].op = "assemble"
    /\ handler.sql_function_name = "none"

\* C29: for a handler without a server function the declared hooks still run:
\* the pre-process hook has been called before the set-session step, where the
\* payload is Null, and a user-level error of the pre-process hook ends the
\* request with BadRequest.
C29_HooksRunWithoutFunction ==
    PastAssembleWithoutFunction =>
        /\ handler.pre_process => CallsOf("pre_process") # {}
        /\ pc = "setjwt" => json_body = "null"
        /\ FromRender /\ handler.set_jwt => CallsOf("set_jwt") # {}
        /\ FromRender /\ handler.post_process => CallsOf("post_process") # {}

\* what holds: the set-session and post-process hooks run on a Null payload and
\* the pre-process hook is never called
C29_PreProcessSkippedWithoutFunction ==
    PastAssembleWithoutFunction =>
        /\ CallsOf("pre_process") = {}
        /\ pc = "setjwt" => json_body = "null"
        /\ FromRender /\ handler.set_jwt => CallsOf("set_jwt") # {}
        /\ FromRender /\ handler.post_process => CallsOf("post_process") # {}

\* the response reports a failed execution of the server function
ExecutionFailed ==
    /\ IsFailure(response) /\ response.message # <<>>
    /\ Head(response.message) = "SQL execution failed: "

\* C30: when the execution of the server function fails, the response has the
\* error code the function returned, BadRequest or InternalError, the request
\* ends there without a call of the set-session or post-process hook and
\* without a session cookie; only a successful execution goes on.
C30_ExecutionFailureIsTerminal ==
    /\ [](ExecutionFailed =>
             /\ pc \in {"write", "crashed"}
             /\ steps[Len(steps)].op = "execute"
             /\ CallsOf("set_jwt") = {} /\ CallsOf("post_process") = {}
             /\ response.status \in {"BadRequest", "InternalError"}
             /\ "Set-Cookie" \notin DOMAIN response.headers
             /\ "Set-Cookie" \notin DOMAIN headers)
    /\ [][pc = "invoke" /\ pc' \in {"write", "setjwt"} =>
             \E db \in DbResults :
                 LET r == execute(Functions[handler.sql_function_name], function_input, db) IN
                 \/ /\ r.kind = "Err" /\ pc' = "write"
                    /\ response'.status = r.value /\ json_body' = json_body
                 \/ /\ r.kind = "Ok" /\ pc' = "setjwt"
                    /\ response' = NoResponse /\ json_body' = r.value]_vars

\* the function of a handler with set-session and post-process hooks failed in
\* the database and the failure is about to be written
C30_Witness ==
    /\ pc = "write" /\ ExecutionFailed
    /\ response.status = "InternalError"
    /\ handler.set_jwt /\ handler.post_process

\* the place of a step in the order of the pipeline
StepRank(op) ==
    CASE op = "resolve" -> 1
      [] op = "select" -> 2
      [] op = "assemble" -> 3
      [] op = "pre_process" -> 4
      [] op = "validate" -> 5
      [] op = "execute" -> 6
      [] op = "set_jwt" -> 7
      [] op = "post_process" -> 8
      [] op = "render" -> 9

\* two entries of the history are the two calls of one hook invocation
IsFallbackPair(i, j) ==
    /\ j = i + 1 /\ steps[i].op = steps[j].op
    /\ steps[i].args = 2 /\ steps[j].args = 1

\* C21: the steps of a request run in the order resolve, select, assemble,
\* pre-process, validate, invoke, set-session, post-process, render: every
\* step that ran did so once and before every step of a later place.
C21_StepsInFixedOrder ==
    \A i, j \in DOMAIN steps :
        i < j => StepRank(steps[i].op) < StepRank(steps[j].op) \/ IsFallbackPair(i, j)

\* a request for which both hooks ran
C21_BothHooksRan == CallsOf("set_jwt") # {} /\ CallsOf("post_process") # {}

\* the request's path resolved to a route that has no handler for its method
MethodMissing ==
    /\ resolved.kind = "route"
    /\ request.method \notin DOMAIN routes[resolved.key]

\* the steps after the selection of the handler: the hooks and the function
AfterSelection == {"assemble", "pre_process", "validate", "execute", "set_jwt",
                   "post_process", "render"}

\* C31: when the resolved route has no handler for the request's method the
\* response is NotFound "Method not allowed for this route", and the request
\* ends with the selection: no claims are decoded, no handler is taken and no
\* hook or function step runs; a handler that is taken is the one registered
\* for the method of the request.
C31_MethodWithoutHandlerIsNotFound ==
    /\ (MethodMissing /\ pc # "select") =>
          /\ pc \in {"write", "crashed"}
          /\ response = PicoError("NotFound", <<"Method not allowed for this route">>)
          /\ handler = NoHandler /\ jwt_claims = "None"
          /\ steps[Len(steps)].op = "select"
          /\ \A i \in DOMAIN steps : steps[i].op \notin AfterSelection
    /\ (resolved.kind = "route" /\ ~MethodMissing /\ pc # "select") =>
          handler = routes[resolved.key][request.method]

\* a POST that carries a verified session cookie, to a route that has a
\* handler for GET only, is being answered with NotFound
C31_Witness ==
    /\ pc = "write" /\ MethodMissing
    /\ request.method = "POST" /\ "GET" \in DOMAIN routes[resolved.key]
    /\ routes[resolved.key]["GET"] = HFull
    /\ extract_jwt_claims(request.cookies, secret_key) = "cookie_claims"
    /\ response.status = "NotFound"

\* the position of the empty line that ends the header block of a response
EndOfHeaderBlock(bytes) ==
    CHOOSE i \in DOMAIN bytes :
        IsEmptyLine(bytes, i) /\ \A j \in DOMAIN bytes : IsEmptyLine(bytes, j) => i <= j

\* the positions of the Content-Length headers of the header block
ContentLengthsOf(bytes) ==
    {i \in 1..EndOfHeaderBlock(bytes) :
        bytes[i] = "Content-Length" /\ bytes[i + 1] = ": "}

\* the bytes after the header block
WrittenBody(bytes) == SubSeq(bytes, EndOfHeaderBlock(bytes) + 1, Len(bytes))

\* the text of the length of a body
LengthText(body) ==
    IF body = <<"file_contents">> THEN "file_contents.len()" ELSE "body_bytes.len()"

\* C32: a written response of status 200 has exactly one Content-Length
\* header in its header block, and its value is the number of bytes that
\* follow the header block; for pipeline results and for static files.
C32_ContentLengthMatchesBody ==
    (pc = "accept" /\ wire # <<>> /\ wire[2] = "200") =>
        /\ Cardinality(ContentLengthsOf(wire)) = 1
        /\ \A i \in ContentLengthsOf(wire) : wire[i + 2] = LengthText(WrittenBody(wire))

\* what holds: the 200 responses of the pipeline have their one Content-Length
C32_PipelineContentLength ==
    (pc = "accept" /\ wire # <<>> /\ wire[2] = "200" /\ ~HasFileContents(wire)) =>
        /\ Cardinality(ContentLengthsOf(wire)) = 1
        /\ \A i \in ContentLengthsOf(wire) : wire[i + 2] = LengthText(WrittenBody(wire))

\* the bytes written to the connection have a Set-Cookie header
CookieOnTheWire == \E i \in DOMAIN wire : wire[i] = "Set-Cookie"

\* C37: a response carries a Set-Cookie header only if its status is 200 and
\* the set-session hook of this request returned claims that were signed; no
\* response of another status carries one, in the record or on the wire, also
\* when the cookie was set before a later step failed.
C37_CookieOnlyOnSuccess ==
    /\ "Set-Cookie" \in DOMAIN response.headers =>
          /\ response.status = "Ok"
          /\ \E i \in SetJwtCalls : steps[i].raised = NoError
          /\ "Set-Cookie" \in DOMAIN headers
          /\ response.headers["Set-Cookie"] = headers["Set-Cookie"]
    /\ (pc = "accept" /\ CookieOnTheWire) => wire[2] = "200"

\* the set-session step has put the cookie into the headers, the post-process
\* hook has then failed with a user-level error, and the 400 has no cookie
C37_Witness ==
    /\ pc = "write" /\ "Set-Cookie" \in DOMAIN headers
    /\ response.status = "BadRequest"
    /\ steps[Len(steps)].op = "post_process"
    /\ "Set-Cookie" \notin DOMAIN response.headers

\* the claims of the request's cookie, as decoded when the handler is selected
DecodedAtStart == extract_jwt_claims(request.cookies, secret_key)

\* C38: while no session cookie has been set for the request (the handler has
\* no set-session hook, the hook failed with an error that is not user-level,
\* or the signing failed) the claims held and the claims the post-process
\* hook is called with are the ones decoded from the request's cookie, or
\* none; the claims change only when the handler is selected, when a
\* set-session hook succeeds and its token is signed, and when the request ends.
C38_ClaimsKeptWithoutSetSession ==
    /\ []((pc \in {"assemble", "pre", "validate", "invoke", "setjwt", "post", "render"}
             /\ "Set-Cookie" \notin DOMAIN headers) =>
            /\ jwt_claims = DecodedAtStart
            /\ \A passed \in ClaimsPassedTo("post_process") : passed = DecodedAtStart)
    /\ [][jwt_claims' # jwt_claims =>
            \/ pc = "select"
            \/ /\ pc = "setjwt" /\ "Set-Cookie" \in DOMAIN headers'
               /\ steps'[Len(steps')].op = "set_jwt"
               /\ steps'[Len(steps')].raised = NoError
            \/ pc = "write" /\ pc' = "accept"]_vars

\* the set-session hook failed with a system error and the post-process hook
\* was called with the claims of the request's cookie
C38_Witness ==
    /\ pc = "render" /\ handler.set_jwt
    /\ \E i \in SetJwtCalls : steps[i].raised = SystemError
    /\ DecodedAtStart = "cookie_claims"
    /\ ClaimsPassedTo("post_process") = {"cookie_claims"}

\* the pre-process hook has returned and the request goes on to the validation
PreProcessWentOn == pc = "pre" /\ pc' = "validate"

\* the input after a hook result has been laid over it
Overlaid(input, out) ==
    IF out.ok /\ out.value.object
    THEN [k \in DOMAIN input \cup DOMAIN out.value.fields |->
             IF k \in DOMAIN out.value.fields THEN out.value.fields[k] ELSE input[k]]
    ELSE input

\* C39: after a pre-process hook that did not end the request, every key of
\* the assembled input is still in the input; the keys of an object the hook
\* returned have the hook's values, the other keys their old values; a result
\* that is not an object, and a failed hook, leave the input as it was.
C39_PreProcessResultOverlaid ==
    [][PreProcessWentOn =>
          /\ DOMAIN function_input \subseteq DOMAIN function_input'
          /\ \E out \in PreOutcomes :
                /\ out.err = steps'[Len(steps')].raised
                /\ function_input' = Overlaid(function_input, out)]_vars

\* the hook has replaced the name of the body and left the other keys
C39_Witness ==
    /\ pc = "validate" /\ handler.pre_process
    /\ "name" \in DOMAIN request.body.fields /\ request.body.fields["name"] = "bo"
    /\ function_input = (":id" :> "42") @@ ("id" :> "7") @@ ("name" :> "lua")

\* the client of the connection sends a complete header block or closes
ClientSendsOrCloses == stream.term # 0 \/ stream.closes

\* C36: with clients that send their request or close and calls that return,
\* every connection that has been accepted is answered or dropped and the
\* listener gets back to accepting the next connection.
C36_EveryConnectionEnds == (pc = "read" /\ ClientSendsOrCloses) ~> (pc = "accept")

\* what holds: an accepted connection ends with the listener accepting again
\* or with the server thread gone
C36_ConnectionEndsOrServerStops ==
    (pc = "read" /\ ClientSendsOrCloses) ~> (pc \in {"accept", "crashed"})

----------------------------------------------------------------------------
(* Claims about the conversion of the request, checked under SpecParse *)

\* a converted request is in the pipeline
Converted == "http_request" \in DOMAIN request

\* the '?' marks of a target
MarksOf(target) == {i \in DOMAIN target : target[i] = "?"}

\* a split that cuts at the first occurrence only (split_once)
SplitOnce(text, sep) ==
    IF \A i \in DOMAIN text : text[i] # sep THEN <<text>>
    ELSE LET at == CHOOSE i \in DOMAIN text :
                       text[i] = sep /\ \A j \in 1..(i - 1) : text[j] # sep
         IN <<SubSeq(text, 1, at - 1), SubSeq(text, at + 1, Len(text))>>

\* the path and the query of a target split at its first '?' only
PathAndQueryAtFirstMark(target) ==
    LET split_path == SplitOnce(target, "?") IN
    IF Len(split_path) = 1 THEN [path |-> split_path[1], query |-> EmptyMap]
    ELSE [path |-> split_path[1],
          query |-> IF split_path[2] # <<>> THEN parse_query_parameters(split_path[2])
                    ELSE EmptyMap]

\* C33: the path of a request is the part of its target before the first
\* '?' and its query the parameters of the part after it, for every target,
\* also one with more than one '?'; a target without '?' is the path and
\* gives no parameters.
C33_TargetSplitAtFirstMark ==
    Converted =>
        LET target == request.http_request.path IN
        /\ request.path = PathPieces(PathAndQueryAtFirstMark(target).path)
        /\ request.query = PathAndQueryAtFirstMark(target).query
        /\ MarksOf(target) = {} => request.path = PathPieces(target) /\ request.query = EmptyMap

\* what holds: the targets with at most one '?' are split at it
C33_SingleMarkSplit ==
    (Converted /\ Cardinality(MarksOf(request.http_request.path)) <= 1) =>
        LET target == request.http_request.path IN
        /\ request.path = PathPieces(PathAndQueryAtFirstMark(target).path)
        /\ request.query = PathAndQueryAtFirstMark(target).query

\* what the code does with a target that has two '?' or more
C33_SeveralMarksGiveEmptyPath ==
    (Converted /\ Cardinality(MarksOf(request.http_request.path)) >= 2) =>
        request.path = EmptyStr /\ request.query = EmptyMap

\* the request came as JSON, by its content type or for lack of one, with a
\* body that is no JSON text, the empty body included
InvalidJsonSent ==
    /\ Converted
    /\ request.http_request.content_type \in {"absent", "application/json"}
    /\ request.http_request.bytes.syntax \in {"invalid", "empty"}

\* C34: a request with a JSON content type whose body is not valid JSON, or
\* is empty, is converted to a request with the JSON null body; the body
\* gives the function input no field: the assembled input is the path
\* parameters alone.
C34_InvalidJsonIsNull ==
    /\ [](InvalidJsonSent =>
             /\ request.body = [kind |-> "Json", value |-> "null", fields |-> EmptyMap]
             /\ pc \in {"resolve", "select", "assemble", "pre", "validate", "invoke",
                        "setjwt", "post", "render", "write", "crashed"})
    /\ [][(InvalidJsonSent /\ pc = "assemble" /\ pc' \in {"pre", "validate"}) =>
             function_input' = resolved.params]_vars

\* a request with a body that is no JSON has had its input assembled
C34_Witness ==
    /\ InvalidJsonSent /\ request.http_request.bytes.syntax = "invalid"
    /\ pc = "pre" /\ function_input = (":id" :> "42")

\* the verbs that Method::from_str knows
RecognisedVerbs == {"GET", "Post"}

\* C35: a request is converted whatever its verb is; a verb that is not
\* recognised gives the method GET, and the request gets the GET handler of
\* the route it resolves to.
C35_UnknownVerbIsGet ==
    Converted =>
        LET verb == request.http_request.method IN
        /\ verb \notin RecognisedVerbs => request.method = "GET"
        /\ verb = "GET" => request.method = "GET"
        /\ verb = "Post" => request.method = "POST"
        /\ (/\ verb \notin RecognisedVerbs /\ resolved.kind = "route"
            /\ "GET" \in DOMAIN routes[resolved.key]
            /\ pc \notin {"resolve", "select"}) =>
              handler = routes[resolved.key]["GET"]

\* a PATCH request has been given the GET handler of its route
C35_Witness ==
    /\ Converted /\ request.http_request.method = "PATCH"
    /\ pc = "assemble" /\ handler = HFull

\* the keys and values a pre-process hook can add
HookFields == UNION {{<<k, out.value.fields[k]>> : k \in DOMAIN out.value.fields} :
                        out \in {o \in PreOutcomes : o.ok}}

\* C40: the parameters of the query string do not enter the function input:
\* the assembled input has the body fields and the path parameters and
\* nothing else, later entries come from the pre-process hook, and a declared
\* parameter that only the query string has is reported missing.
C40_QueryNeverEntersInput ==
    /\ (Converted /\ InputAssembled) =>
          /\ DOMAIN function_input = DOMAIN request.body.fields \cup DOMAIN resolved.params
          /\ \A k \in DOMAIN function_input :
                function_input[k] = IF k \in DOMAIN resolved.params THEN resolved.params[k]
                                    ELSE request.body.fields[k]
    /\ (Converted /\ pc \in {"validate", "invoke"}) =>
          \A k \in DOMAIN function_input :
             \/ k \in DOMAIN resolved.params /\ function_input[k] = resolved.params[k]
             \/ k \in DOMAIN request.body.fields /\ function_input[k] = request.body.fields[k]
             \/ <<k, function_input[k]>> \in HookFields
    /\ (/\ Converted /\ pc \in {"write", "crashed"} /\ steps[Len(steps)].op = "validate"
        /\ "id" \in DOMAIN function_input /\ "name" \notin DOMAIN request.body.fields
        /\ "name" \notin DOMAIN function_input) =>
          response = PicoError("BadRequest", <<"Missing required parameter: ", "name">>)

\* a request with ?name=bo and a body without a name is being answered with
\* the report of the missing name
C40_Witness ==
    /\ Converted /\ pc = "write"
    /\ "name" \in DOMAIN request.query /\ request.query["name"] = "bo"
    /\ request.body.fields = ("id" :> "7")
    /\ response = PicoError("BadRequest", <<"Missing required parameter: ", "name">>)

----------------------------------------------------------------------------
(* Claims about route resolution, checked under SpecRoute *)

\* the node of the tree a registered path reaches after its first n segments
NodeOf(segs, n) == [j \in 1..n |-> ChildKey(segs[j])]

\* the request path matches the registered path segment by segment: literal
\* segments equal, parameter segments arbitrary and not a sibling literal
MatchesRoute(route, path) ==
    LET rs == NonEmptySegs(route)
        ps == NonEmptySegs(path)
    IN  /\ Len(rs) = Len(ps)
        /\ \A i \in 1..Len(rs) :
              IF StartsWithColon(rs[i])
              THEN ps[i] = "*" \/ Append(NodeOf(rs, i - 1), ps[i]) \notin DOMAIN route_tree
              ELSE rs[i] = ps[i]

BindingsOf(route, path) ==
    LET rs == NonEmptySegs(route)
        ps == NonEmptySegs(path)
    IN  \A i \in 1..Len(rs) :
            StartsWithColon(rs[i]) =>
                /\ rs[i] \in DOMAIN resolved.params
                /\ resolved.params[rs[i]] = ps[i]

\* C4: every request path that matches a registered route segment by segment
\* resolves to exactly that route (the key of the route table) with every
\* parameter bound to the segment of the request path.
C4_RegisteredRouteResolves ==
    pc = "resolved" =>
        \A route \in DOMAIN routes :
            MatchesRoute(route, request.path) =>
                /\ resolved.kind = "route"
                /\ resolved.key = route
                /\ BindingsOf(route, request.path)

\* the request paths with the same non-empty segments, by list of segments
VariantsOf ==
    [segs \in SeqsUpTo(SegAlphabet \ {""}, MaxRawLen) |->
        {q \in RawPaths : NonEmptySegs(q) = segs}]

Variants(path) == VariantsOf[NonEmptySegs(path)]

C6_LiteralBeforeWildcard ==
    pc = "resolved" =>
        /\ \A i \in 1..Len(resolved.trace) :
              LET st == resolved.trace[i]
                  literal == st.seg # "*" /\ Append(st.node, st.seg) \in DOMAIN route_tree
              IN  /\ st.child = Append(st.node, "*") => ~literal
                  /\ literal => st.child = Append(st.node, st.seg) /\ ~st.bound
        /\ DOMAIN resolved.params =
              {route_tree[resolved.trace[i].child] :
                  i \in {j \in 1..Len(resolved.trace) : resolved.trace[j].bound}}

C6_Witness ==
    /\ pc = "resolved"
    /\ \E i \in 1..Len(resolved.trace) :
          LET st == resolved.trace[i] IN
          /\ st.seg # "*"
          /\ st.child = Append(st.node, st.seg)
          /\ Append(st.node, "*") \in DOMAIN route_tree

RECURSIVE Orders(_)
Orders(S) ==
    IF S = {} THEN {<<>>}
    ELSE UNION {{Append(o, x) : o \in Orders(S \ {x})} : x \in S}

\* C7: the route key and the bindings of a request path do not depend on the
\* order in which the registered routes were inserted into the tree.
C7_OrderIndependent ==
    pc = "resolved" =>
        \A order \in Orders(DOMAIN routes) :
            LET other == ResolveRoute(BuildTree(order), routes, files, request.path) IN
            /\ other.kind = resolved.kind
            /\ other.key = resolved.key
            /\ other.params = resolved.params

\* C8: a request path that does not resolve to a registered route is answered
\* NotFound only if the static lookup has been attempted and has failed.
C8_UnresolvedFallsBackToStatic ==
    pc = "resolved" /\ resolved.kind \in {"no_child", "no_route"} =>
        /\ resolved.static_tries > 0
        /\ ~try_serve_static_file(files, request.path).ok

\* the walk through the tree alone reaches a registered route
TreeResolves(path) == ResolveRoute(route_tree, routes, {}, path).kind = "route"

====
